---- MODULE Spec2Model ----
(***************************************************************************)
(* Synchronization core of the AP Statistics quiz application:             *)
(*   - the Local Hub WebSocket server (src/README.md, lines 371-755),      *)
(*   - the client HybridDataService (src/hybrid-data-service.js),          *)
(*   - the remote store wrapper FirebaseConfig (src/unnamed/part_001).     *)
(*                                                                         *)
(* JavaScript Maps are functions whose DOMAIN is the key set; null and     *)
(* undefined are NULL; an absent numeric field is 0 (both are falsy for    *)
(* the `||` the code applies to them).  Time is the value Date.now()       *)
(* returns; the Hub's never goes back.                                     *)
(***************************************************************************)
EXTENDS Integers, Sequences, FiniteSets, TLC

\* ------------------------------------------------------------- bounds
MaxRaw == 3          \* peers that speak the wire protocol directly
MaxSockets == 2      \* WebSocket objects of the modelled client alive at once
MaxQueue == 2        \* messages in flight on one direction of one link
MaxHubTicks == 1     \* advances of the Hub's clock
HubStart == 1000     \* Date.now() when the Hub starts
MaxTimers == 2       \* reconnect timers pending at once
MaxOps == 2          \* remote-store writes pending at once
MaxInits == 2        \* calls of initialize()
MaxNotices == 2      \* observer calls awaiting onUserSignIn at once
MaxPasses == 2       \* reconcile passes in flight at once
MaxClientTicks == 1  \* advances of the client's clock
ClientStart == 2000  \* Date.now() when the page loads

MaxSkips == 1        \* times the Hub's clock jumps ahead by the retention window
MaxSubs == 2         \* subscriptions alive at a time
MaxPending == 2      \* remote queries one handler of 'peerDataUpdated' awaits at once
MaxQueries == 1      \* remote queries the page's own getPeerResponses calls await at once

\* ------------------------------------------------------------- program constants
maxReconnectAttempts == 5
SESSION_TIMEOUT == 3600000

\* ------------------------------------------------------------- values
NULL == "null"
Questions == {"Q1"}
Users == {"u1", "u2"}
Answers == {"A", "B"}
Reasons == {""}
\* the questions and the answer of the cache and remote-store runs
CacheQuestions == {"Q1", "Q2"}
CacheAnswers == {"A"}
\* the addresses given to connectToLocalHub: the Hub's, and one that makes no URL
HubAddress == "hub"
BadAddress == "bad host"
Addresses == {HubAddress, BadAddress}
\* <<answer, timestamp>> of the submissions peers make; timestamp 0: the field is absent
RawAnswers == {<<"A", 100>>, <<"B", 50>>, <<"B", 0>>}

Socks == 1..MaxSockets                              \* the client's sockets
RawConns == (MaxSockets + 1)..(MaxSockets + MaxRaw) \* other peers' sockets
Conns == Socks \cup RawConns
NoConn == 0

\* user.displayName of the identity provider (part_001:191); u2 has none
DisplayNameOf(u) == IF u = "u1" THEN "Ann" ELSE NULL

EmptyMap == [x \in {} |-> NULL]
MapSet(m, k, v) == [x \in (DOMAIN m) \cup {k} |-> IF x = k THEN v ELSE m[x]]
MapDelete(m, k) == [x \in (DOMAIN m) \ {k} |-> m[x]]
\* every value of a Map of Maps (forEach over forEach)
\* (mutant) a listing that leaves every response out
NoResponses(resp) == {}

AllResponses(resp) == UNION {{resp[q][u] : u \in DOMAIN resp[q]} : q \in DOMAIN resp}
\* the (questionId, userId) keys of a Map of Maps
Keys(resp) == UNION {{<<q, u>> : u \in DOMAIN resp[q]} : q \in DOMAIN resp}

VARIABLES
    \* ---- Hub (src/README.md)
    connectedClients,   \* Map ws -> clientInfo {userId, displayName, isAlive}
    hubSock,            \* readyState of the sockets of wss.clients; "NONE": not in it
    wssClients,         \* wss.clients: its sockets in the order they were accepted
    responses,          \* sessionData.responses: questionId -> userId -> response
    lastWriter,         \* per stored key, the modelled client's socket it came over (or NoConn)
    activeUsers,        \* sessionData.activeUsers
    hubNow,             \* the Hub's Date.now()
    hubRunning,         \* FALSE once SIGINT was handled
    hubEvent,           \* history: the last Hub handler run and what it sent
    \* ---- the links
    toHub,              \* per socket: client -> Hub messages in flight
    toClient,           \* per socket: Hub -> client messages in flight
    \* ---- client (src/hybrid-data-service.js, src/unnamed/part_001)
    connectionMode,     \* 'cloud' | 'local' | 'offline'
    wsConnection,       \* this.wsConnection: a socket or NoConn (null)
    wsReconnectAttempts,
    clientSock,         \* the client's WebSocket objects
    reconnectTimers,    \* pending setTimeout callbacks of handleWebSocketDisconnect
    lastLocalHubIP,     \* localStorage 'lastLocalHubIP'
    currentUser,        \* FirebaseConfig.auth.currentUser (uid or NULL)
    authNotify,         \* observer calls awaiting onUserSignIn before they announce a sign-in
    onLine,             \* navigator.onLine
    initialized,        \* how many times initialize() has registered its listeners
    ownResponses,       \* localCache.responses
    responseOrder,      \* the questionIds of localCache.responses in the order they were set
    peerData,           \* localCache.peerData
    clientNow,          \* the client's Date.now()
    cloudOps,           \* saveQuizResponse calls not yet settled
    cloudStore,         \* quizResponses collection: <<questionId, userId>> -> doc
    userStore,          \* users/{uid}/responses collections: <<userId, questionId>> -> doc
    peerQueries,        \* getPeerResponses calls awaiting getClassResponses: their questionIds
    firestoreListeners, \* this.firestoreListeners: questionId -> subscription
    listeners,          \* the callbacks registered by subscribeToQuestion
    connHist,           \* history of the reconnect machinery
    dataHist            \* history of saveResponse / syncLocalToCloud calls

hubVars == <<connectedClients, hubSock, wssClients, responses, lastWriter, activeUsers, hubNow, hubRunning,
            hubEvent>>
linkVars == <<toHub, toClient>>
connVars == <<connectionMode, wsConnection, wsReconnectAttempts, clientSock,
              reconnectTimers, lastLocalHubIP, connHist>>
authVars == <<currentUser, authNotify, onLine, initialized>>
cacheVars == <<ownResponses, responseOrder, peerData, clientNow>>
cloudVars == <<cloudOps, cloudStore, userStore, peerQueries, dataHist>>
subVars == <<firestoreListeners, listeners>>
clientVars == <<connVars, authVars, cacheVars, cloudVars, subVars>>
vars == <<hubVars, linkVars, clientVars>>

\* ======================================================================
\* Hub: src/README.md
\* ======================================================================

NoMsg == [type |-> "none"]
NoEvent == [kind |-> "none", conn |-> NoConn, msg |-> NoMsg, now |-> 0, sent |-> <<>>]
\* the record of a Hub handler run at `now` for socket c and message m, having sent `out`
Event(kind, c, m, now, out) == [kind |-> kind, conn |-> c, msg |-> m, now |-> now, sent |-> out]

\* `value || Date.now()` (README.md:599, 612)
OrNow(timestamp, now) == IF timestamp = 0 THEN now ELSE timestamp

\* (mutant) a broadcast that does not leave the sender out
RecipientsWithSender(sock, senderWs) == {c \in Conns : sock[c] = "OPEN"}

\* the sockets of wss.clients a broadcast reaches, sock being their readyStates
\* (README.md:452-456)
Recipients(sock, senderWs) == {c \in Conns : c # senderWs /\ sock[c] = "OPEN"}

\* wss.clients.forEach sending m to the sockets of cs: a Set is walked in the
\* order its members were added, here the order the sockets were accepted
RECURSIVE ToEach(_, _, _)
ToEach(clients, cs, m) ==
    IF clients = <<>> THEN <<>>
    ELSE (IF Head(clients) \in cs THEN <<[to |-> Head(clients), msg |-> m]>> ELSE <<>>)
         \o ToEach(Tail(clients), cs, m)

\* broadcast(message, senderWs): the sends it performs
Broadcast(sock, m, senderWs) == ToEach(wssClients, Recipients(sock, senderWs), m)

\* sendToClient(clientWs, message): the sends it performs (README.md:460-465)
SendToClient(sock, c, m) ==
    IF sock[c] = "OPEN" THEN <<[to |-> c, msg |-> m]>> ELSE <<>>

\* the messages of `out` addressed to c, in order
MsgsTo(out, c) ==
    LET mine == SelectSeq(out, LAMBDA e : e.to = c)
    IN [i \in 1..Len(mine) |-> mine[i].msg]

\* a client socket object that does not exist
NoSocket == [rs |-> "NONE", promise |-> "none", timer |-> FALSE,
             origin |-> "none", accepted |-> FALSE, closed |-> FALSE]

\* the sends of a Hub handler reach the client's sockets through toClient; what is
\* sent to a peer of RawConns is consumed by that peer at once
Room(out) == \A s \in Socks : Len(toClient[s]) + Len(MsgsTo(out, s)) <= MaxQueue
Enqueue(out) ==
    [s \in Socks |-> IF clientSock[s].rs = "NONE" \/ clientSock[s].closed THEN toClient[s]
                     ELSE toClient[s] \o MsgsTo(out, s)]

\* {type: 'peer_response', ...response} (README.md:498-501)
PeerResponseOf(r) ==
    [type |-> "peer_response", questionId |-> r.questionId, answer |-> r.answer,
     reason |-> r.reason, userId |-> r.userId, displayName |-> r.displayName,
     timestamp |-> r.timestamp]

\* the response the Hub stores for a submit_response received at `now`
\* (README.md:593-600)
StoredResponse(m, now) ==
    [questionId |-> m.questionId, answer |-> m.answer, reason |-> m.reason,
     userId |-> m.userId, displayName |-> m.displayName,
     timestamp |-> OrNow(m.timestamp, now)]

\* (mutant) a store that keeps the stored response when its timestamp is greater
StoreIfNewer(resp, r) ==
    IF /\ r.questionId \in DOMAIN resp
       /\ r.userId \in DOMAIN resp[r.questionId]
       /\ resp[r.questionId][r.userId].timestamp > r.timestamp
    THEN resp
    ELSE LET inner == IF r.questionId \in DOMAIN resp THEN resp[r.questionId]
                      ELSE EmptyMap
         IN MapSet(resp, r.questionId, MapSet(inner, r.userId, r))

\* sessionData.responses after the store of README.md:590-600
StoreResponse(resp, r) ==
    LET inner == IF r.questionId \in DOMAIN resp THEN resp[r.questionId] ELSE EmptyMap
    IN MapSet(resp, r.questionId, MapSet(inner, r.userId, r))

\* (mutant) a Hub that syncs only when asked to
NoBulkOnConnection(sock, c) == <<>>

\* the bulk_update sent to a new socket (README.md:493-512)
ExistingDataBulk(sock, c) ==
    LET existingData == {PeerResponseOf(r) : r \in AllResponses(responses)}
    IN IF DOMAIN responses # {} /\ existingData # {}
       THEN SendToClient(sock, c, [type |-> "bulk_update", responses |-> existingData])
       ELSE <<>>

\* wss.on('connection') (README.md:468-512)
OnConnection(c) ==
    /\ hubRunning
    /\ hubSock[c] = "NONE"
    /\ c \notin DOMAIN connectedClients
    /\ LET sock == [hubSock EXCEPT ![c] = "OPEN"]
           welcome == [type |-> "welcome", serverTime |-> hubNow,
                       connectedClients |-> Cardinality(activeUsers)]
           out == SendToClient(sock, c, welcome) \o ExistingDataBulk(sock, c)
       IN /\ Room(out)
          /\ hubSock' = sock
          /\ wssClients' = Append(wssClients, c)
          /\ connectedClients' = MapSet(connectedClients, c,
                 [userId |-> NULL, displayName |-> NULL, isAlive |-> TRUE])
          /\ toClient' = Enqueue(out)
          /\ hubEvent' = Event("connection", c, NoMsg, hubNow, out)
    /\ UNCHANGED <<responses, lastWriter, activeUsers, hubNow, hubRunning>>

\* case 'identify' (README.md:561-583)
HubIdentify(c, m) ==
    /\ m.type = "identify"
    /\ LET users == activeUsers \cup {m.userId}
           out == Broadcast(hubSock, [type |-> "user_joined", userId |-> m.userId,
                                      displayName |-> m.displayName,
                                      activeUsers |-> Cardinality(users)], NoConn)
                  \o SendToClient(hubSock, c, [type |-> "identified", success |-> TRUE,
                                               activeUsers |-> users])
       IN /\ Room(out)
          /\ connectedClients' = [connectedClients EXCEPT
                                    ![c].userId = m.userId,
                                    ![c].displayName = m.displayName]
          /\ activeUsers' = users
          /\ toClient' = Enqueue(out)
          /\ hubEvent' = Event("identify", c, m, hubNow, out)
    /\ UNCHANGED <<hubSock, wssClients, responses, lastWriter, hubNow, hubRunning>>

\* case 'submit_response' (README.md:585-621).  Date.now() is read at line 599
\* and again at line 612: the clock may have advanced in between.
HubSubmitResponse(c, m) ==
    /\ m.type = "submit_response"
    /\ \E later \in {hubNow, hubNow + 1} :
        /\ later = hubNow \/ later <= HubStart + MaxHubTicks
        /\ LET stored == StoredResponse(m, hubNow)
               out == Broadcast(hubSock,
                                PeerResponseOf(StoredResponse(m, later)), c)
                      \o SendToClient(hubSock, c,
                             [type |-> "response_confirmed",
                              questionId |-> m.questionId, success |-> TRUE])
           IN /\ Room(out)
              /\ responses' = StoreResponse(responses, stored)
              /\ lastWriter' = MapSet(lastWriter, <<stored.questionId, stored.userId>>,
                                       IF c \in Socks THEN c ELSE NoConn)
              /\ hubNow' = later
              /\ toClient' = Enqueue(out)
              /\ hubEvent' = Event("submit_response", c, m, hubNow, out)
    /\ UNCHANGED <<connectedClients, hubSock, wssClients, activeUsers, hubRunning>>

\* case 'request_sync' (README.md:623-640)
HubRequestSync(c, m) ==
    /\ m.type = "request_sync"
    /\ LET out == SendToClient(hubSock, c,
                      [type |-> "sync_response", responses |-> AllResponses(responses),
                       activeUsers |-> activeUsers, timestamp |-> hubNow])
       IN /\ Room(out)
          /\ toClient' = Enqueue(out)
          /\ hubEvent' = Event("request_sync", c, m, hubNow, out)
    /\ UNCHANGED <<connectedClients, hubSock, wssClients, responses, lastWriter, activeUsers, hubNow, hubRunning>>

\* case 'ping' (README.md:642-648)
HubPing(c, m) ==
    /\ m.type = "ping"
    /\ LET out == SendToClient(hubSock, c, [type |-> "pong", timestamp |-> hubNow])
       IN /\ Room(out)
          /\ toClient' = Enqueue(out)
          /\ hubEvent' = Event("ping", c, m, hubNow, out)
    /\ UNCHANGED <<connectedClients, hubSock, wssClients, responses, lastWriter, activeUsers, hubNow, hubRunning>>

\* (mutant) statistics that count the questions answered, not the responses
HubGetStatsPerQuestion(c, m) ==
    /\ m.type = "get_stats"
    /\ LET out == SendToClient(hubSock, c,
                      [type |-> "stats",
                       connectedClients |-> Cardinality(DOMAIN connectedClients),
                       activeUsers |-> Cardinality(activeUsers),
                       totalResponses |-> Cardinality(DOMAIN responses),
                       uptime |-> hubNow - HubStart])
       IN /\ Room(out)
          /\ toClient' = Enqueue(out)
          /\ hubEvent' = Event("get_stats", c, m, hubNow, out)
    /\ UNCHANGED <<connectedClients, hubSock, wssClients, responses, lastWriter, activeUsers, hubNow, hubRunning>>

\* case 'get_stats' (README.md:650-660)
HubGetStats(c, m) ==
    /\ m.type = "get_stats"
    /\ LET out == SendToClient(hubSock, c,
                      [type |-> "stats",
                       connectedClients |-> Cardinality(DOMAIN connectedClients),
                       activeUsers |-> Cardinality(activeUsers),
                       totalResponses |-> Cardinality(Keys(responses)),
                       uptime |-> hubNow - HubStart])
       IN /\ Room(out)
          /\ toClient' = Enqueue(out)
          /\ hubEvent' = Event("get_stats", c, m, hubNow, out)
    /\ UNCHANGED <<connectedClients, hubSock, wssClients, responses, lastWriter, activeUsers, hubNow, hubRunning>>

\* data JSON.parse rejects (README.md:516-525)
BadJson == [type |-> "#unparseable"]
ClientMsgTypes == {"identify", "submit_response", "request_sync", "ping", "get_stats"}

\* (mutant) an error that is announced to every open socket
HubErrorToAll(c, m) ==
    /\ m.type \notin ClientMsgTypes
    /\ LET text == IF m = BadJson THEN "Invalid message format"
                   ELSE "Unknown message type"
           out == Broadcast(hubSock, [type |-> "error", message |-> text], NoConn)
       IN /\ Room(out)
          /\ toClient' = Enqueue(out)
          /\ hubEvent' = Event("error", c, m, hubNow, out)
    /\ UNCHANGED <<connectedClients, hubSock, wssClients, responses, lastWriter, activeUsers, hubNow, hubRunning>>

\* default: and the catch of ws.on('message') (README.md:519-525, 662-668)
HubError(c, m) ==
    /\ m.type \notin ClientMsgTypes
    /\ LET text == IF m = BadJson THEN "Invalid message format"
                   ELSE "Unknown message type"
           out == SendToClient(hubSock, c, [type |-> "error", message |-> text])
       IN /\ Room(out)
          /\ toClient' = Enqueue(out)
          /\ hubEvent' = Event("error", c, m, hubNow, out)
    /\ UNCHANGED <<connectedClients, hubSock, wssClients, responses, lastWriter, activeUsers, hubNow, hubRunning>>

\* ws.on('message') -> handleClientMessage (README.md:515-526, 559-669).  A socket
\* the Hub itself asked to close ("CLOSING") still delivers what its peer had sent;
\* one whose peer closed ("CLOSING_PEER") or that the heartbeat terminated
\* ("TERMINATED") delivers no more.
OnMessage(c, m) ==
    /\ c \in DOMAIN connectedClients
    /\ hubSock[c] \in {"OPEN", "CLOSING"}
    /\ \/ HubIdentify(c, m)
       \/ HubSubmitResponse(c, m)
       \/ HubRequestSync(c, m)
       \/ HubPing(c, m)
       \/ HubGetStats(c, m)
       \/ HubError(c, m)

\* the peer's closing handshake reaches the Hub: readyState CLOSING until 'close'
OnPeerClosing(c) ==
    /\ c \in DOMAIN connectedClients
    /\ hubSock[c] \in {"OPEN", "CLOSING"}
    /\ hubSock' = [hubSock EXCEPT ![c] = "CLOSING_PEER"]
    /\ UNCHANGED wssClients
    /\ hubEvent' = Event("closing", c, NoMsg, hubNow, <<>>)
    /\ UNCHANGED <<connectedClients, responses, lastWriter, activeUsers, hubNow, hubRunning, toClient>>

\* (mutant) a close that leaves the user among the active ones
UsersAfterCloseKept(users, info) == users

\* sessionData.activeUsers after the close of a socket with clientInfo `info`
\* (README.md:532-533)
UsersAfterClose(users, info) ==
    IF info.userId # NULL THEN users \ {info.userId} ELSE users

\* ws.on('close') (README.md:528-545); the socket has left wss.clients
OnClose(c) ==
    /\ c \in DOMAIN connectedClients
    /\ LET info == connectedClients[c]
           sock == [hubSock EXCEPT ![c] = "NONE"]
           users == UsersAfterClose(activeUsers, info)
           out == IF info.userId # NULL
                  THEN Broadcast(sock, [type |-> "user_disconnected",
                                        userId |-> info.userId,
                                        displayName |-> info.displayName,
                                        activeUsers |-> Cardinality(users)], c)
                  ELSE <<>>
       IN /\ Room(out)
          /\ hubSock' = sock
          /\ wssClients' = SelectSeq(wssClients, LAMBDA x : x # c)
          /\ activeUsers' = users
          /\ connectedClients' = MapDelete(connectedClients, c)
          /\ toClient' = Enqueue(out)
          /\ hubEvent' = Event("close", c, NoMsg, hubNow, out)
    /\ lastWriter' = [k \in DOMAIN lastWriter |->
                         IF lastWriter[k] = c THEN NoConn ELSE lastWriter[k]]
    /\ UNCHANGED <<responses, hubNow, hubRunning>>

\* (mutant) a shutdown that closes the sockets before it notifies them
OnSigintCloseFirst ==
    /\ hubRunning
    /\ hubSock' = [c \in Conns |-> IF hubSock[c] = "OPEN" THEN "CLOSING" ELSE hubSock[c]]
    /\ UNCHANGED wssClients
    /\ LET out == Broadcast(hubSock', [type |-> "server_shutdown"], NoConn)
       IN /\ Room(out)
          /\ toClient' = Enqueue(out)
          /\ hubEvent' = Event("SIGINT", NoConn, NoMsg, hubNow, out)
    /\ hubRunning' = FALSE
    /\ UNCHANGED <<connectedClients, responses, lastWriter, activeUsers, hubNow>>

\* process.on('SIGINT') (README.md:713-740)
OnSigint ==
    /\ hubRunning
    /\ LET out == Broadcast(hubSock, [type |-> "server_shutdown"], NoConn)
       IN /\ Room(out)
          /\ toClient' = Enqueue(out)
          /\ hubEvent' = Event("SIGINT", NoConn, NoMsg, hubNow, out)
    /\ hubSock' = [c \in Conns |-> IF hubSock[c] = "OPEN" THEN "CLOSING" ELSE hubSock[c]]
    /\ UNCHANGED wssClients
    /\ hubRunning' = FALSE
    /\ UNCHANGED <<connectedClients, responses, lastWriter, activeUsers, hubNow>>

\* ws.on('pong') (README.md:553-555)
OnPong(c) ==
    /\ c \in DOMAIN connectedClients
    /\ hubSock[c] \in {"OPEN", "CLOSING"}
    /\ connectedClients' = [connectedClients EXCEPT ![c].isAlive = TRUE]
    /\ hubEvent' = Event("pong", c, NoMsg, hubNow, <<>>)
    /\ UNCHANGED <<hubSock, wssClients, responses, lastWriter, activeUsers, hubNow, hubRunning, toClient>>

\* (mutant) a sweep that terminates every registered socket
SweptSocketsAll(sock, clients) ==
    [c \in Conns |-> IF c \in DOMAIN clients THEN "TERMINATED" ELSE sock[c]]

\* (mutant) a sweep that terminates nothing
SweptSocketsNone(sock, clients) == sock

\* the readyStates after one heartbeat sweep: ws.terminate() for every socket
\* whose clientInfo is not alive (README.md:673-679); its 'close' follows
SweptSockets(sock, clients) ==
    [c \in Conns |-> IF c \in DOMAIN clients /\ ~clients[c].isAlive
                     THEN "TERMINATED" ELSE sock[c]]

\* the heartbeat interval callback (README.md:672-686); SIGINT clears the interval
Heartbeat ==
    /\ hubRunning
    /\ hubSock' = SweptSockets(hubSock, connectedClients)
    /\ UNCHANGED wssClients
    /\ connectedClients' = [c \in DOMAIN connectedClients |->
                               [connectedClients[c] EXCEPT !.isAlive = FALSE]]
    /\ hubEvent' = Event("heartbeat", NoConn, NoMsg, hubNow, <<>>)
    /\ UNCHANGED <<responses, lastWriter, activeUsers, hubNow, hubRunning, toClient>>

\* (mutant) a sweep that also deletes a response exactly as old as the window
RetainedStrict(resp, cutoffTime) ==
    LET keep(q) == {u \in DOMAIN resp[q] : ~(resp[q][u].timestamp <= cutoffTime)}
    IN [q \in {x \in DOMAIN resp : keep(x) # {}} |-> [u \in keep(q) |-> resp[q][u]]]

\* sessionData.responses after the deletions of README.md:694-705
Retained(resp, cutoffTime) ==
    LET keep(q) == {u \in DOMAIN resp[q] : ~(resp[q][u].timestamp < cutoffTime)}
    IN [q \in {x \in DOMAIN resp : keep(x) # {}} |-> [u \in keep(q) |-> resp[q][u]]]

\* removedCount of one sweep (README.md:692-699)
RemovedCount(resp, cutoffTime) ==
    Cardinality({k \in Keys(resp) : resp[k[1]][k[2]].timestamp < cutoffTime})

\* the cleanup interval callback (README.md:689-710); SIGINT clears the interval
Cleanup ==
    /\ hubRunning
    /\ LET cutoffTime == hubNow - SESSION_TIMEOUT
       IN /\ responses' = Retained(responses, cutoffTime)
          /\ hubEvent' = Event("cleanup", NoConn,
                               [type |-> "cleanup",
                                removedCount |-> RemovedCount(responses, cutoffTime)],
                               hubNow, <<>>)
    /\ lastWriter' = [k \in Keys(responses') |-> lastWriter[k]]
    /\ UNCHANGED <<connectedClients, hubSock, wssClients, activeUsers, hubNow, hubRunning, toClient>>

\* the retention window passes on the Hub with nothing else happening
HubSkip ==
    /\ hubNow < HubStart + MaxSkips * SESSION_TIMEOUT
    /\ hubNow' = hubNow + SESSION_TIMEOUT
    /\ hubEvent' = NoEvent
    /\ UNCHANGED <<connectedClients, hubSock, wssClients, responses, lastWriter, activeUsers, hubRunning, toClient>>

\* time passes on the Hub
HubTick ==
    /\ hubNow < HubStart + MaxHubTicks
    /\ hubNow' = hubNow + 1
    /\ hubEvent' = NoEvent
    /\ UNCHANGED <<connectedClients, hubSock, wssClients, responses, lastWriter, activeUsers, hubRunning, toClient>>

\* ---------------------------------------------------------------- peers
\* what a peer may put on the wire
RawSubmits ==
    {[type |-> "submit_response", questionId |-> q, answer |-> x[1], reason |-> r,
      userId |-> u, displayName |-> DisplayNameOf(u), timestamp |-> x[2]] :
        q \in Questions, r \in Reasons, u \in Users, x \in RawAnswers}
RawIdentifies ==
    {[type |-> "identify", userId |-> u, displayName |-> DisplayNameOf(u)] : u \in Users}
RawQueries == {[type |-> "ping"], [type |-> "get_stats"]}
RawBad == {[type |-> "bogus"], BadJson}

RawConnect == \E c \in RawConns : OnConnection(c) /\ UNCHANGED <<toHub, clientVars>>
RawSubmit ==
    \E c \in RawConns, m \in RawSubmits : OnMessage(c, m) /\ UNCHANGED <<toHub, clientVars>>
RawSync ==
    \E c \in RawConns : OnMessage(c, [type |-> "request_sync"])
                        /\ UNCHANGED <<toHub, clientVars>>
RawIdentify ==
    \E c \in RawConns, m \in RawIdentifies : OnMessage(c, m) /\ UNCHANGED <<toHub, clientVars>>
RawQuery ==
    \E c \in RawConns, m \in RawQueries : OnMessage(c, m) /\ UNCHANGED <<toHub, clientVars>>
RawGarbage ==
    \E c \in RawConns, m \in RawBad : OnMessage(c, m) /\ UNCHANGED <<toHub, clientVars>>
RawClosing == \E c \in RawConns : OnPeerClosing(c) /\ UNCHANGED <<toHub, clientVars>>
RawClose == \E c \in RawConns : OnClose(c) /\ UNCHANGED <<toHub, clientVars>>
Sigint == OnSigint /\ UNCHANGED <<toHub, clientVars>>
Tick == HubTick /\ UNCHANGED <<toHub, clientVars>>
\* the 'close' event of a socket the heartbeat sweep terminated (README.md:676)
TerminatedClose ==
    \E c \in RawConns : hubSock[c] = "TERMINATED" /\ OnClose(c)
                         /\ UNCHANGED <<toHub, clientVars>>
RawUserSubmits == {m \in RawSubmits : m.timestamp = 100}
RawUserSubmit ==
    \E c \in RawConns, m \in RawUserSubmits : OnMessage(c, m)
                                              /\ UNCHANGED <<toHub, clientVars>>
RawPong == \E c \in RawConns : OnPong(c) /\ UNCHANGED <<toHub, clientVars>>
HeartbeatSweep == Heartbeat /\ UNCHANGED <<toHub, clientVars>>
CleanupSweep == Cleanup /\ UNCHANGED <<toHub, clientVars>>
Skip == HubSkip /\ UNCHANGED <<toHub, clientVars>>

\* ======================================================================
\* Remote store: src/unnamed/part_001, and its callers in
\* src/hybrid-data-service.js
\* ======================================================================

\* a reconcile pass not in flight
NoPass == [active |-> FALSE, issued |-> 0, results |-> <<>>]
\* dataHist.passes: the reconcile passes awaiting Promise.allSettled;
\* dataHist.event (history): the last cache or remote-store step and its outcome;
\* dataHist.best (history): per key the response of greatest timestamp among those
\* saveResponse built; dataHist.lowered (history): an inbound message has replaced a
\* cached peer entry by one of smaller timestamp
NoDataHist ==
    [passes |-> [p \in 1..MaxPasses |-> NoPass], event |-> [kind |-> "none"],
     best |-> EmptyMap, lowered |-> FALSE]

\* dataHist.best once saveResponse built r
Best(best, r) ==
    LET k == <<r.questionId, r.userId>>
    IN IF k \in DOMAIN best /\ best[k].timestamp > r.timestamp
       THEN best ELSE MapSet(best, k, r)

\* FirebaseConfig.saveQuizResponse(questionId, answer, reason) up to its first
\* await (part_001:177-202): the call in flight, for reconcile pass `pass`
\* (0: a call of saveResponse), awaiting its first write (stage 1, the user's
\* own document) or its second (stage 2, the class-wide document)
WriteOp(user, questionId, answer, reason, pass) ==
    [questionId |-> questionId, userId |-> user, answer |-> answer,
     reason |-> reason, displayName |-> DisplayNameOf(user), pass |-> pass,
     stage |-> 1]

\* (mutant) a reconcile pass that replays every cached response
SyncAllKeys(own, user) == Keys(own)

\* the keys of localCache.responses syncLocalToCloud replays (hybrid-data-service.js:421-433)
SyncKeys(own, user) == {k \in Keys(own) : k[2] = user}

\* the calls pushed for the entries ks of one question (hybrid-data-service.js:
\* 423-432): the userId filter leaves one entry at most
RECURSIVE OpsOfQuestion(_, _, _, _)
OpsOfQuestion(ks, own, user, pass) ==
    IF ks = {} THEN <<>>
    ELSE LET k == CHOOSE x \in ks : TRUE
             r == own[k[1]][k[2]]
         IN <<WriteOp(user, r.questionId, r.answer, r.reason, pass)>>
            \o OpsOfQuestion(ks \ {k}, own, user, pass)

\* the saveQuizResponse calls of one pass in the order they are issued:
\* localCache.responses.forEach visits the questions in the order they were
\* first set (hybrid-data-service.js:421-433)
RECURSIVE OpsFor(_, _, _, _, _)
OpsFor(order, ks, own, user, pass) ==
    IF order = <<>> THEN <<>>
    ELSE OpsOfQuestion({k \in ks : k[1] = Head(order)}, own, user, pass)
         \o OpsFor(Tail(order), ks, own, user, pass)

\* results.filter(r => r.status === 'fulfilled').length: saveQuizResponse catches
\* every error and returns false, so each settled result is fulfilled
\* (hybrid-data-service.js:436-439, part_001:212-215)
Successful(results) == Len(results)
Failed(results) == Len(SelectSeq(results, LAMBDA v : FALSE))
Falses(results) == Len(SelectSeq(results, LAMBDA v : v = FALSE))

ReportOf(p, results) ==
    [kind |-> "report", pass |-> p, issued |-> Len(results),
     successful |-> Successful(results), failed |-> Failed(results),
     falses |-> Falses(results)]

\* the n lowest passes of `free`
LowestFree(free, n) == {p \in free : Cardinality({o \in free : o < p}) < n}

\* the writes of the passes ps, in the order the passes were started
RECURSIVE OpsOfPasses(_, _, _)
OpsOfPasses(ps, own, user) ==
    IF ps = {} THEN <<>>
    ELSE LET p == CHOOSE x \in ps : \A y \in ps : x <= y
         IN OpsFor(responseOrder, SyncKeys(own, user), own, user, p)
            \o OpsOfPasses(ps \ {p}, own, user)

\* syncLocalToCloud() (hybrid-data-service.js:411-446), called n times in a row,
\* once by each listener initialize() registered, with the mode and identity of
\* that moment: each call with something to replay starts a pass of its own.  The
\* event remembers which listener called it.
SyncLocalToCloud(n, mode, user, caller) ==
    IF mode # "cloud" \/ user = NULL \/ n = 0
    THEN UNCHANGED <<cloudOps, cloudStore, userStore, peerQueries, dataHist>>
    ELSE LET free == {p \in 1..MaxPasses : ~dataHist.passes[p].active}
             keys == SyncKeys(ownResponses, user)
             ps == LowestFree(free, n)
             ops == OpsOfPasses(ps, ownResponses, user)
             last == CHOOSE x \in ps : \A y \in ps : y <= x
         IN /\ free # {}
            /\ IF keys = {}
               THEN /\ dataHist' = [dataHist EXCEPT !.event =
                                       ReportOf(CHOOSE x \in free : \A y \in free : x <= y,
                                                <<>>)]
                    /\ UNCHANGED cloudOps
               ELSE /\ Cardinality(free) >= n
                    /\ Len(cloudOps) + Len(ops) <= MaxOps
                    /\ cloudOps' = cloudOps \o ops
                    /\ dataHist' =
                         [dataHist EXCEPT
                            !.passes = [p \in 1..MaxPasses |->
                                          IF p \in ps
                                          THEN [active |-> TRUE,
                                                issued |-> Cardinality(keys),
                                                results |-> <<>>]
                                          ELSE @[p]],
                            !.event = [kind |-> "sync", pass |-> last, user |-> user,
                                       issued |-> Cardinality(keys), caller |-> caller]]
            /\ UNCHANGED <<cloudStore, userStore, peerQueries>>

\* ======================================================================
\* Client: src/hybrid-data-service.js
\* ======================================================================

\* a sign-out, a loss of the network or a move to 'cloud': the reconnect timers
\* pending when it leaves 'local' are remembered in connHist.stale
LeaveLocal(mode) ==
    IF connectionMode = "local" /\ mode # "local" THEN reconnectTimers ELSE connHist.stale

\* initialize() after FirebaseConfig.initialize() settled with fbOk
\* (hybrid-data-service.js:26-48)
Initialize ==
    /\ initialized < MaxInits
    /\ \E fbOk \in BOOLEAN :
         LET mode == IF onLine /\ fbOk THEN "cloud" ELSE "offline"
         IN /\ connectionMode' = mode
            /\ connHist' = [connHist EXCEPT !.stale = LeaveLocal(mode), !.auto = 0]
    /\ initialized' = initialized + 1
    /\ UNCHANGED <<hubVars, linkVars, wsConnection, wsReconnectAttempts, clientSock,
                   reconnectTimers, lastLocalHubIP, currentUser, authNotify, onLine,
                   cacheVars, cloudVars>>
    /\ UNCHANGED subVars

\* (mutant) an identity provider that always reports a signed-in user
IsSignedInAlways(user) == TRUE

\* FirebaseConfig.isSignedIn() (part_001:294-296)
IsSignedIn(user) == user # NULL

\* window 'online' (hybrid-data-service.js:54-60)
Online ==
    /\ ~onLine
    /\ onLine' = TRUE
    /\ IF initialized > 0 /\ IsSignedIn(currentUser)
       THEN /\ connectionMode' = "cloud"
            /\ connHist' = [connHist EXCEPT !.stale = LeaveLocal("cloud"), !.auto = 0]
            /\ SyncLocalToCloud(initialized, "cloud", currentUser, "online")
       ELSE UNCHANGED <<connectionMode, connHist, cloudVars>>
    /\ UNCHANGED <<hubVars, linkVars, wsConnection, wsReconnectAttempts, clientSock,
                   reconnectTimers, lastLocalHubIP, currentUser, authNotify,
                   initialized, cacheVars>>
    /\ UNCHANGED subVars

\* window 'offline' (hybrid-data-service.js:62-66)
Offline ==
    /\ onLine
    /\ onLine' = FALSE
    /\ IF initialized > 0
       THEN /\ connectionMode' = "offline"
            /\ connHist' = [connHist EXCEPT !.stale = LeaveLocal("offline"), !.auto = 0]
       ELSE UNCHANGED <<connectionMode, connHist>>
    /\ UNCHANGED <<hubVars, linkVars, wsConnection, wsReconnectAttempts, clientSock,
                   reconnectTimers, lastLocalHubIP, currentUser, authNotify,
                   initialized, cacheVars, cloudVars>>
    /\ UNCHANGED subVars

\* ---------------------------------------------------------- subscriptions

\* a callback slot: kind "snapshot" is a Firestore onSnapshot listener, "window" a
\* handler of 'peerDataUpdated' on window, "none" with pending > 0 a handler already
\* removed whose callback is still due; pending counts the getPeerResponses calls
\* of the handler awaiting the remote query; signedOut and late are history: a
\* sign-out was handled since it was registered, and it was invoked after that
NoListener ==
    [kind |-> "none", questionId |-> NULL, signedOut |-> FALSE, late |-> FALSE,
     pending |-> 0]
NewListener(kind, questionId) ==
    [kind |-> kind, questionId |-> questionId, signedOut |-> FALSE, late |-> FALSE,
     pending |-> 0]

\* the slot of a listener that was removed: its pending callbacks stay due
Removed(l) == IF l.pending > 0 THEN [l EXCEPT !.kind = "none"] ELSE NoListener

\* a slot nothing refers to
FreeListener(i) ==
    /\ listeners[i].kind = "none"
    /\ listeners[i].pending = 0
    /\ \A q \in DOMAIN firestoreListeners : firestoreListeners[q] # i

\* subscribeToQuestion(questionId, callback) (hybrid-data-service.js:373-395)
SubscribeToQuestion(questionId) ==
    /\ \E i \in 1..MaxSubs :
         /\ FreeListener(i)
         /\ \A o \in 1..MaxSubs : o < i => ~FreeListener(o)
         /\ IF connectionMode = "cloud"
            THEN /\ listeners' = [listeners EXCEPT ![i] = NewListener("snapshot", questionId)]
                 /\ firestoreListeners' = MapSet(firestoreListeners, questionId, i)
            ELSE /\ listeners' = [listeners EXCEPT ![i] = NewListener("window", questionId)]
                 /\ UNCHANGED firestoreListeners
    /\ UNCHANGED <<hubVars, linkVars, connVars, authVars, cacheVars, cloudVars>>

\* the function subscribeToQuestion returned is called: the Firestore unsubscribe
\* (hybrid-data-service.js:376-378) or the removeEventListener closure (391-393)
Unsubscribe(i) ==
    /\ listeners[i].kind # "none"
    /\ listeners' = [listeners EXCEPT ![i] = Removed(@)]
    /\ UNCHANGED <<hubVars, linkVars, connVars, authVars, cacheVars, cloudVars,
                   firestoreListeners>>

\* the listeners left once every unsubscribe of the map `tracked` was called
Cleared(ls, tracked) ==
    [i \in DOMAIN ls |-> IF \E q \in DOMAIN tracked : tracked[q] = i
                         THEN NoListener ELSE ls[i]]

\* unsubscribeFromQuestion(questionId) (hybrid-data-service.js:400-406)
UnsubscribeFromQuestion(questionId) ==
    /\ questionId \in DOMAIN firestoreListeners
    /\ listeners' = [listeners EXCEPT ![firestoreListeners[questionId]] = Removed(@)]
    /\ firestoreListeners' = MapDelete(firestoreListeners, questionId)
    /\ UNCHANGED <<hubVars, linkVars, connVars, authVars, cacheVars, cloudVars>>

\* history: the callbacks still registered have seen a sign-out
SignedOut(ls) ==
    [i \in DOMAIN ls |-> IF ls[i].kind = "none" /\ ls[i].pending = 0 THEN ls[i]
                         ELSE [ls[i] EXCEPT !.signedOut = TRUE]]

\* the callbacks of `called` are invoked
Invoked(ls, called) ==
    [i \in DOMAIN ls |-> IF i \in called
                         THEN [ls[i] EXCEPT !.late = @ \/ ls[i].signedOut]
                         ELSE ls[i]]

\* Firestore delivers a snapshot to listener i (part_001:245-251)
Snapshot(i) ==
    /\ listeners[i].kind = "snapshot"
    /\ listeners' = Invoked(listeners, {i})
    /\ UNCHANGED <<hubVars, linkVars, connVars, authVars, cacheVars, cloudVars,
                   firestoreListeners>>

\* the handlers of 'peerDataUpdated' run, `events[q]` times for question q: each
\* run calls getPeerResponses(questionId).then(callback)
\* (hybrid-data-service.js:382-386).  In 'local' and 'offline' the call returns
\* the cached list without waiting and the callback follows at once; in 'cloud'
\* it awaits the remote query (line 348) and the callback is due when that answers.
PeerDataUpdated(ls, events) ==
    LET runs(i) == IF ls[i].kind = "window" /\ ls[i].questionId \in DOMAIN events
                   THEN events[ls[i].questionId] ELSE 0
    IN IF connectionMode = "cloud"
       THEN [i \in DOMAIN ls |-> [ls[i] EXCEPT !.pending = @ + runs(i)]]
       ELSE Invoked(ls, {i \in DOMAIN ls : runs(i) > 0})

\* the remote query of a getPeerResponses call made by handler i answers (or
\* throws, which getClassResponses turns into an empty list): the callback runs
QueryAnswered(i) ==
    /\ listeners[i].pending > 0
    /\ listeners' = [listeners EXCEPT ![i] =
           LET l == [@ EXCEPT !.pending = @ - 1, !.late = @ \/ listeners[i].signedOut]
           IN IF l.kind = "none" /\ l.pending = 0 /\ ~l.late THEN NoListener ELSE l]
    /\ UNCHANGED <<hubVars, linkVars, connVars, authVars, cacheVars, cloudVars,
                   firestoreListeners>>

\* handleAuthStateChange(detail) (hybrid-data-service.js:451-468), detail.user being
\* the user at the time of the announcement: with none, detail.user.displayName
\* throws before anything is done
HandleAuthStateChange(isSignedIn, user) ==
    IF initialized = 0 \/ (isSignedIn /\ user = NULL)
    THEN UNCHANGED <<connectionMode, connHist, cloudVars, subVars>>
    ELSE IF isSignedIn
         THEN /\ IF onLine
                 THEN /\ connectionMode' = "cloud"
                      /\ connHist' = [connHist EXCEPT !.stale = LeaveLocal("cloud"),
                                                      !.auto = 0]
                      /\ SyncLocalToCloud(initialized, "cloud", user, "authStateChanged")
                 ELSE UNCHANGED <<connectionMode, connHist, cloudVars>>
              /\ UNCHANGED subVars
         ELSE /\ connectionMode' = "offline"
              /\ connHist' = [connHist EXCEPT !.stale = LeaveLocal("offline"), !.auto = 0]
              /\ firestoreListeners' = EmptyMap
              /\ listeners' = SignedOut(Cleared(listeners, firestoreListeners))
              /\ UNCHANGED cloudVars

\* onAuthStateChanged(user), a user signing in: currentUser is set, the
\* announcement waits for onUserSignIn (part_001:56-62)
SignIn(u) ==
    /\ authNotify < MaxNotices
    /\ currentUser' = u
    /\ authNotify' = authNotify + 1
    /\ UNCHANGED <<hubVars, linkVars, connVars, onLine, initialized, cacheVars, cloudVars>>
    /\ UNCHANGED subVars

\* notifyAuthStateChange(true) once onUserSignIn settled (part_001:61-62, 283-291)
SignedInNotice ==
    /\ authNotify > 0
    /\ authNotify' = authNotify - 1
    /\ HandleAuthStateChange(TRUE, currentUser)
    /\ UNCHANGED <<hubVars, linkVars, wsConnection, wsReconnectAttempts, clientSock,
                   reconnectTimers, lastLocalHubIP, currentUser, onLine, initialized,
                   cacheVars>>

\* onAuthStateChanged(null): notifyAuthStateChange(false) (part_001:56-65)
SignOut ==
    /\ currentUser' = NULL
    /\ HandleAuthStateChange(FALSE, NULL)
    /\ UNCHANGED <<hubVars, linkVars, wsConnection, wsReconnectAttempts, clientSock,
                   reconnectTimers, lastLocalHubIP, authNotify, onLine, initialized,
                   cacheVars>>

\* FirebaseConfig.signOut() once authInstance.signOut() settled (part_001:92-95): it
\* clears auth.currentUser itself; the observer's call is SignOut
FirebaseSignOut ==
    /\ currentUser' = NULL
    /\ UNCHANGED <<hubVars, linkVars, connVars, authNotify, onLine, initialized, cacheVars,
                   cloudVars>>
    /\ UNCHANGED subVars

\* a slot for a new WebSocket object: the lowest one nothing refers to
FreeSlot(s) ==
    /\ clientSock[s].rs = "NONE" /\ hubSock[s] = "NONE"
    /\ toHub[s] = <<>> /\ toClient[s] = <<>>
NewSlot(s) == FreeSlot(s) /\ \A o \in Socks : o < s => ~FreeSlot(o)

\* the test of hybrid-data-service.js:109: this.wsConnection is an OPEN socket
AlreadyOpen == wsConnection # NoConn /\ clientSock[wsConnection].rs = "OPEN"

\* whether new WebSocket(`ws://${serverIP}`) throws: the address makes no URL
\* (hybrid-data-service.js:115-118)
WebSocketThrows(serverIP) == serverIP # HubAddress

\* connectToLocalHub(serverIP) (hybrid-data-service.js:108-168); origin tells who
\* called: "user", "timer", or "stale" for a timer scheduled before the controller
\* left 'local'.  With a link open it returns true at once; when the constructor
\* throws the catch returns false and nothing is changed.
ConnectToLocalHub(serverIP, origin) ==
    IF AlreadyOpen \/ WebSocketThrows(serverIP)
    THEN UNCHANGED <<wsConnection, clientSock>>
    ELSE \E s \in Socks :
           /\ NewSlot(s)
           /\ wsConnection' = s
           /\ clientSock' = [clientSock EXCEPT ![s] =
                  [rs |-> "CONNECTING", promise |-> "pending", timer |-> TRUE,
                   origin |-> origin, accepted |-> FALSE, closed |-> FALSE]]

\* whether ConnectToLocalHub creates a socket
Connects(serverIP) == ~AlreadyOpen /\ ~WebSocketThrows(serverIP)

\* connHist.returned (history) flips each time a caller other than the reconnect
\* timer is answered `true` at once (hybrid-data-service.js:109-112)
Returned(h) == [h EXCEPT !.returned = IF AlreadyOpen THEN 1 - @ ELSE @]

\* connectToLocalHubFromDialog() (hybrid-data-service.js:510-534), serverIP the
\* trimmed value of the input: nothing is done with an empty one, any other is
\* saved before the connect is tried
ConnectFromDialog(serverIP) ==
    IF serverIP = ""
    THEN UNCHANGED vars
    ELSE /\ lastLocalHubIP' = serverIP
         /\ ConnectToLocalHub(serverIP, "user")
         /\ connHist' = Returned(connHist)
         /\ UNCHANGED <<hubVars, linkVars, connectionMode, wsReconnectAttempts,
                        reconnectTimers, authVars, cacheVars, cloudVars>>
         /\ UNCHANGED subVars

\* connectToLocalHub(serverIP) called by the application itself
ConnectDirect(serverIP) ==
    /\ ConnectToLocalHub(serverIP, "user")
    /\ connHist' = Returned(connHist)
    /\ UNCHANGED <<hubVars, linkVars, connectionMode, wsReconnectAttempts,
                   reconnectTimers, lastLocalHubIP, authVars, cacheVars,
                   cloudVars>>
    /\ UNCHANGED subVars

\* the 5000 ms timer of connectToLocalHub fires and rejects the promise
\* (hybrid-data-service.js:121-123); when the close event of the socket came
\* before, nothing refers to the object any more and only the outcome of its
\* promise is left
ConnectTimeout(s) ==
    /\ clientSock[s].timer
    /\ clientSock' = IF clientSock[s].closed
                     THEN [clientSock EXCEPT ![s] =
                             [NoSocket EXCEPT !.promise =
                                 IF clientSock[s].promise = "pending"
                                 THEN "rejected" ELSE "none"]]
                     ELSE [clientSock EXCEPT ![s].timer = FALSE,
                              ![s].promise = IF @ = "pending" THEN "rejected" ELSE @]
    /\ UNCHANGED <<hubVars, linkVars, connectionMode, wsConnection, wsReconnectAttempts,
                   reconnectTimers, lastLocalHubIP, connHist, authVars, cacheVars,
                   cloudVars>>
    /\ UNCHANGED subVars

\* WebSocket.send(data) on socket t throws when there is no socket (a property of
\* null) or it is still CONNECTING
SendThrows(sock, t) == t = NoConn \/ sock[t].rs = "CONNECTING"

\* whether what WebSocket.send is given on socket t travels to the Hub: a socket
\* whose readyState is CLOSING or CLOSED discards it without throwing, and the
\* Hub's end has to be there to take it
Carries(sock, t) == sock[t].rs = "OPEN" /\ hubSock[t] \in {"OPEN", "CLOSING"}

\* this.wsConnection.send(...) of each of msgs, this.wsConnection being socket t
\* and sock the WebSocket objects at that moment (hybrid-data-service.js:134-144,
\* 321-324)
Sent(sock, t, msgs) ==
    [s \in Socks |-> IF s = t /\ Carries(sock, t) THEN toHub[s] \o msgs ELSE toHub[s]]

\* (mutant) an onopen whose handshake replays the user's cached responses where
\* the source asks for a sync
OnOpenReplay(s) ==
    /\ clientSock[s].rs = "CONNECTING"
    /\ connectionMode' = "local"
    /\ wsReconnectAttempts' = 0
    /\ connHist' = [connHist EXCEPT !.auto = 0]
    /\ LET sock == [clientSock EXCEPT ![s].rs = "OPEN", ![s].timer = FALSE]
           own == {k \in Keys(ownResponses) : k[2] = currentUser}
           msgs == IF own = {}
                   THEN <<[type |-> "request_sync"]>>
                   ELSE LET k == CHOOSE x \in own : TRUE
                        IN <<[type |-> "submit_response"] @@ ownResponses[k[1]][k[2]]>>
       IN IF SendThrows(sock, wsConnection)
          THEN /\ clientSock' = sock
               /\ UNCHANGED toHub
          ELSE /\ Carries(sock, wsConnection) =>
                    Len(toHub[wsConnection]) + Len(msgs) <= MaxQueue
               /\ toHub' = Sent(sock, wsConnection, msgs)
               /\ clientSock' = [sock EXCEPT ![s].promise =
                                     IF @ = "pending" THEN "resolved" ELSE @]
    /\ UNCHANGED <<hubVars, toClient, wsConnection, reconnectTimers, lastLocalHubIP,
                   authVars, cacheVars, cloudVars>>
    /\ UNCHANGED subVars

\* onopen of socket s (hybrid-data-service.js:125-147): every send goes to
\* this.wsConnection, whichever socket that is by now
OnOpen(s) ==
    /\ clientSock[s].rs = "CONNECTING"
    /\ connectionMode' = "local"
    /\ wsReconnectAttempts' = 0
    /\ connHist' = [connHist EXCEPT !.auto = 0]
    /\ LET sock == [clientSock EXCEPT ![s].rs = "OPEN", ![s].timer = FALSE]
           identify == IF currentUser # NULL
                       THEN <<[type |-> "identify", userId |-> currentUser,
                               displayName |-> IF DisplayNameOf(currentUser) # NULL
                                               THEN DisplayNameOf(currentUser)
                                               ELSE "Anonymous"]>>
                       ELSE <<>>
           msgs == identify \o <<[type |-> "request_sync"]>>
       IN IF SendThrows(sock, wsConnection)
          THEN /\ clientSock' = sock
               /\ UNCHANGED toHub
          ELSE /\ Carries(sock, wsConnection) =>
                    Len(toHub[wsConnection]) + Len(msgs) <= MaxQueue
               /\ toHub' = Sent(sock, wsConnection, msgs)
               /\ clientSock' = [sock EXCEPT ![s].promise =
                                     IF @ = "pending" THEN "resolved" ELSE @]
    /\ UNCHANGED <<hubVars, toClient, wsConnection, reconnectTimers, lastLocalHubIP,
                   authVars, cacheVars, cloudVars>>
    /\ UNCHANGED subVars

\* onerror of socket s (hybrid-data-service.js:149-153); the browser fires it on a
\* socket it has just failed, readyState CLOSED, and onclose follows
OnErrorEvent(s) ==
    /\ clientSock[s].rs \in {"CONNECTING", "OPEN"}
    /\ clientSock' = [clientSock EXCEPT ![s].rs = "CLOSED", ![s].timer = FALSE,
                        ![s].promise = IF @ = "pending" THEN "rejected" ELSE @]
    /\ UNCHANGED <<hubVars, linkVars, connectionMode, wsConnection, wsReconnectAttempts,
                   reconnectTimers, lastLocalHubIP, connHist, authVars, cacheVars,
                   cloudVars>>
    /\ UNCHANGED subVars

\* (mutant) a disconnect handled in every mode as it is in 'local'
InAnyMode(mode) == TRUE

\* the test `this.connectionMode === 'local'` (hybrid-data-service.js:262)
InLocalMode(mode) == mode = "local"

\* handleWebSocketDisconnect() (hybrid-data-service.js:259-279)
HandleWebSocketDisconnect ==
    /\ wsConnection' = NoConn
    /\ IF InLocalMode(connectionMode)
       THEN IF wsReconnectAttempts < maxReconnectAttempts
            THEN /\ wsReconnectAttempts' = wsReconnectAttempts + 1
                 /\ reconnectTimers < MaxTimers
                 /\ reconnectTimers' = reconnectTimers + 1
                 /\ UNCHANGED <<connectionMode, connHist>>
            ELSE /\ connectionMode' = "offline"
                 /\ connHist' = [connHist EXCEPT !.auto = 0]
                 /\ UNCHANGED <<wsReconnectAttempts, reconnectTimers>>
       ELSE UNCHANGED <<connectionMode, wsReconnectAttempts, reconnectTimers, connHist>>

\* onclose of socket s (hybrid-data-service.js:159-162): it only calls
\* handleWebSocketDisconnect.  The timer of the connect is cleared by onopen and
\* onerror alone, so a socket closed before either keeps its timer and its pending
\* promise; once no timer is left nothing refers to the object.
OnCloseEvent(s) ==
    /\ clientSock[s].rs \in {"CONNECTING", "OPEN", "CLOSED"}
    /\ ~clientSock[s].closed
    /\ clientSock' = IF clientSock[s].timer
                     THEN [clientSock EXCEPT ![s].rs = "CLOSED", ![s].closed = TRUE]
                     ELSE [clientSock EXCEPT ![s] = NoSocket]
    /\ toClient' = [toClient EXCEPT ![s] = <<>>]
    /\ HandleWebSocketDisconnect
    /\ UNCHANGED <<hubVars, toHub, lastLocalHubIP, authVars, cacheVars, cloudVars>>
    /\ UNCHANGED subVars

\* the setTimeout callback of handleWebSocketDisconnect (hybrid-data-service.js:268-273)
ReconnectTimer ==
    /\ reconnectTimers > 0
    /\ reconnectTimers' = reconnectTimers - 1
    /\ \E stale \in BOOLEAN :
         /\ stale => connHist.stale > 0
         /\ ~stale => reconnectTimers > connHist.stale
         /\ IF lastLocalHubIP # NULL
            THEN /\ ConnectToLocalHub(lastLocalHubIP, IF stale THEN "stale" ELSE "timer")
                 /\ connHist' = [connHist EXCEPT
                                    !.stale = IF stale THEN @ - 1 ELSE @,
                                    !.auto = IF Connects(lastLocalHubIP)
                                                /\ connectionMode = "local"
                                             THEN @ + 1 ELSE @]
            ELSE /\ UNCHANGED <<wsConnection, clientSock>>
                 /\ connHist' = [connHist EXCEPT !.stale = IF stale THEN @ - 1 ELSE @]
    /\ UNCHANGED <<hubVars, linkVars, connectionMode, wsReconnectAttempts,
                   lastLocalHubIP, authVars, cacheVars, cloudVars>>
    /\ UNCHANGED subVars

\* ---------------------------------------------------------------- receive

\* what handlePeerResponse keeps of a response (hybrid-data-service.js:221-226)
PeerEntry(r) ==
    [answer |-> r.answer, reason |-> r.reason, displayName |-> r.displayName,
     timestamp |-> r.timestamp]

\* (mutant) a fold that keeps the cached entry when its timestamp is greater
HandlePeerResponseIfNewer(peers, r) ==
    IF /\ r.questionId \in DOMAIN peers
       /\ r.userId \in DOMAIN peers[r.questionId]
       /\ peers[r.questionId][r.userId].timestamp > r.timestamp
    THEN peers
    ELSE MapSet(peers, r.questionId,
                MapSet(IF r.questionId \in DOMAIN peers THEN peers[r.questionId]
                       ELSE EmptyMap,
                       r.userId, PeerEntry(r)))

\* handlePeerResponse(response) (hybrid-data-service.js:214-232)
HandlePeerResponse(peers, r) ==
    MapSet(peers, r.questionId,
           MapSet(IF r.questionId \in DOMAIN peers THEN peers[r.questionId] ELSE EmptyMap,
                  r.userId, PeerEntry(r)))

\* handleBulkUpdate(responses) (hybrid-data-service.js:237-241); the Hub lists each
\* stored key once, so the order of the list does not matter
RECURSIVE HandleBulkUpdate(_, _)
HandleBulkUpdate(peers, rs) ==
    IF rs = {} THEN peers
    ELSE LET r == CHOOSE x \in rs : TRUE
         IN HandleBulkUpdate(HandlePeerResponse(peers, r), rs \ {r})

\* (mutant) a handler that starts the cache afresh on a message it does not fold
HandleWebSocketMessageReset(peers, m) ==
    CASE m.type = "peer_response" -> HandlePeerResponse(peers, m)
      [] m.type = "bulk_update" -> HandleBulkUpdate(peers, m.responses)
      [] m.type = "sync_response" -> HandleBulkUpdate(peers, m.responses)
      [] OTHER -> EmptyMap

\* handleWebSocketMessage(data) (hybrid-data-service.js:173-209): the cache after
\* message m
HandleWebSocketMessage(peers, m) ==
    CASE m.type = "peer_response" -> HandlePeerResponse(peers, m)
      [] m.type = "bulk_update" -> HandleBulkUpdate(peers, m.responses)
      [] m.type = "sync_response" -> HandleBulkUpdate(peers, m.responses)
      [] OTHER -> peers

\* the questions handlePeerResponse dispatches 'peerDataUpdated' for while
\* message m is handled (hybrid-data-service.js:229-231)
UpdatedQuestions(m) ==
    CASE m.type = "peer_response" -> {m.questionId}
      [] m.type \in {"bulk_update", "sync_response"} -> {r.questionId : r \in m.responses}
      [] OTHER -> {}

\* how many times it dispatches the event for each of them: once per response
DispatchCounts(m) ==
    [q \in UpdatedQuestions(m) |->
        IF m.type = "peer_response" THEN 1
        ELSE Cardinality({r \in m.responses : r.questionId = q})]

\* whether the cache `after` holds, for a key of `before`, a smaller timestamp
Lowered(before, after) ==
    \E k \in Keys(before) \cap Keys(after) :
       after[k[1]][k[2]].timestamp < before[k[1]][k[2]].timestamp

\* onmessage of socket s (hybrid-data-service.js:155-157)
OnMessageEvent(s) ==
    /\ clientSock[s].rs = "OPEN"
    /\ toClient[s] # <<>>
    /\ peerData' = HandleWebSocketMessage(peerData, Head(toClient[s]))
    /\ dataHist' = [dataHist EXCEPT !.lowered = @ \/ Lowered(peerData, peerData')]
    /\ listeners' = PeerDataUpdated(listeners, DispatchCounts(Head(toClient[s])))
    /\ \A i \in DOMAIN listeners : listeners'[i].pending <= MaxPending
    /\ toClient' = [toClient EXCEPT ![s] = Tail(@)]
    /\ UNCHANGED <<hubVars, toHub, connVars, authVars, ownResponses, responseOrder, clientNow, cloudOps,
                   cloudStore, userStore, peerQueries, firestoreListeners>>

\* ------------------------------------------------------------------- submit

\* (mutant) a cache that is written only once the transport has taken the response
CacheWriteLater(cache, r) == cache

\* "Save to local cache first" (hybrid-data-service.js:300-304)
CacheWrite(cache, r) ==
    MapSet(cache, r.questionId,
           MapSet(IF r.questionId \in DOMAIN cache THEN cache[r.questionId] ELSE EmptyMap,
                  r.userId, r))

\* whether localCache.responses holds r under its key
Cached(cache, r) ==
    /\ r.questionId \in DOMAIN cache
    /\ r.userId \in DOMAIN cache[r.questionId]
    /\ cache[r.questionId][r.userId] = r

\* (mutant) a submission sent under the type the Hub uses for relayed responses
SubmitMessageAsPeer(responseData) == [type |-> "peer_response"] @@ responseData

\* the message saveResponse sends in 'local' (hybrid-data-service.js:321-324)
SubmitMessage(responseData) == [type |-> "submit_response"] @@ responseData

\* the order of the keys of localCache.responses once questionId was set: a key
\* the Map has keeps its place (hybrid-data-service.js:301-303)
OrderAfter(order, questionId) ==
    IF \E i \in 1..Len(order) : order[i] = questionId THEN order
    ELSE Append(order, questionId)

\* (mutant) a saveResponse that writes the cache before it looks for the user
SaveResponseCacheFirst(questionId, answer, reason) ==
    /\ ownResponses' = CacheWrite(ownResponses,
                            [questionId |-> questionId, answer |-> answer,
                             reason |-> reason, userId |-> currentUser,
                             displayName |-> DisplayNameOf(currentUser),
                             timestamp |-> clientNow])
    /\ responseOrder' = OrderAfter(responseOrder, questionId)
    /\ dataHist' = [dataHist EXCEPT !.event = [kind |-> "refused",
                                              mode |-> connectionMode,
                                              saved |-> "false"]]
    /\ UNCHANGED <<toHub, cloudOps>>

\* saveResponse(questionId, answer, reason) (hybrid-data-service.js:284-339).
\* The event records the mode the call ran in, the response it built, whether
\* the cache held it when the transport was reached, and what the call returned
\* ("pending" while saveQuizResponse is awaited).
SaveResponse(questionId, answer, reason) ==
    IF currentUser = NULL
    THEN /\ dataHist' = [dataHist EXCEPT !.event = [kind |-> "refused",
                                                   mode |-> connectionMode,
                                                   saved |-> "false"]]
         /\ UNCHANGED <<ownResponses, responseOrder, toHub, cloudOps>>
    ELSE LET responseData == [questionId |-> questionId, answer |-> answer,
                              reason |-> reason, userId |-> currentUser,
                              displayName |-> DisplayNameOf(currentUser),
                              timestamp |-> clientNow]
             cache == CacheWrite(ownResponses, responseData)
             call(saved) == [kind |-> "save", mode |-> connectionMode,
                             response |-> responseData,
                             cached |-> Cached(cache, responseData), saved |-> saved]
             linkOpen == wsConnection # NoConn /\ clientSock[wsConnection].rs = "OPEN"
             hist(saved) == [dataHist EXCEPT !.event = call(saved),
                                             !.best = Best(@, responseData)]
         IN /\ ownResponses' = cache
            /\ responseOrder' = OrderAfter(responseOrder, questionId)
            /\ CASE connectionMode = "cloud" ->
                      /\ Len(cloudOps) < MaxOps
                      /\ cloudOps' = Append(cloudOps,
                             WriteOp(currentUser, questionId, answer, reason, 0))
                      /\ dataHist' = hist("pending")
                      /\ UNCHANGED toHub
                 [] connectionMode = "local" /\ linkOpen ->
                      /\ Carries(clientSock, wsConnection) =>
                            Len(toHub[wsConnection]) < MaxQueue
                      /\ toHub' = Sent(clientSock, wsConnection,
                                       <<SubmitMessage(responseData)>>)
                      /\ dataHist' = hist("true")
                      /\ UNCHANGED cloudOps
                 [] connectionMode = "local" /\ ~linkOpen ->
                      /\ dataHist' = hist("false")
                      /\ UNCHANGED <<toHub, cloudOps>>
                 [] connectionMode = "offline" ->
                      /\ dataHist' = hist("true")
                      /\ UNCHANGED <<toHub, cloudOps>>

\* ------------------------------------------------------------------- read

\* FirebaseConfig.getClassResponses(questionId) (part_001:219-236): the documents
\* of the question, or [] when the query throws
GetClassResponses(store, questionId, ok) ==
    IF ok THEN {store[k] : k \in {x \in DOMAIN store : x[1] = questionId}} ELSE {}

\* (mutant) a read that finds nothing in the cache
CachedPeersNone(peers, questionId) == {}

\* the list getPeerResponses builds from localCache.peerData
\* (hybrid-data-service.js:352-363)
CachedPeers(peers, questionId) ==
    IF questionId \in DOMAIN peers
    THEN {[userId |-> u] @@ peers[questionId][u] : u \in DOMAIN peers[questionId]}
    ELSE {}

\* getPeerResponses(questionId) up to its return or its await
\* (hybrid-data-service.js:344-368): the mode is read at the call; in 'cloud' the
\* call is suspended at `await FirebaseConfig.getClassResponses(questionId)` and
\* returns nothing yet, in 'local' and 'offline' it returns the cached list.  The
\* event records the mode read, whether the remote store was queried and what
\* was returned.
GetPeerResponses(questionId) ==
    /\ IF connectionMode = "cloud"
       THEN /\ Len(peerQueries) < MaxQueries
            /\ peerQueries' = Append(peerQueries, questionId)
            /\ dataHist' = [dataHist EXCEPT !.event =
                   [kind |-> "query", mode |-> connectionMode,
                    questionId |-> questionId, remote |-> TRUE]]
       ELSE /\ dataHist' = [dataHist EXCEPT !.event =
                   [kind |-> "peers", mode |-> connectionMode,
                    questionId |-> questionId, remote |-> FALSE,
                    responses |-> CachedPeers(peerData, questionId)]]
            /\ UNCHANGED peerQueries
    /\ UNCHANGED <<hubVars, linkVars, connVars, authVars, cacheVars, cloudOps, cloudStore,
                   userStore, subVars>>

\* the query getPeerResponses call i awaits answers or throws (part_001:221-235):
\* the call returns what getClassResponses gives of the store as it is by then,
\* whatever the mode has become (hybrid-data-service.js:348)
PeerResponsesReturned(i, ok) ==
    /\ i \in 1..Len(peerQueries)
    /\ peerQueries' = SubSeq(peerQueries, 1, i - 1)
                        \o SubSeq(peerQueries, i + 1, Len(peerQueries))
    /\ dataHist' = [dataHist EXCEPT !.event =
           [kind |-> "peers", mode |-> "cloud", questionId |-> peerQueries[i],
            remote |-> TRUE,
            responses |-> GetClassResponses(cloudStore, peerQueries[i], ok)]]
    /\ UNCHANGED <<hubVars, linkVars, connVars, authVars, cacheVars, cloudOps, cloudStore,
                   userStore, subVars>>

RemoveAt(seq, i) == SubSeq(seq, 1, i - 1) \o SubSeq(seq, i + 1, Len(seq))

\* the record both documents of a response get (part_001:184-192); the server
\* sets the timestamp
StoredDoc(op) ==
    [userId |-> op.userId, questionId |-> op.questionId, answer |-> op.answer,
     reason |-> op.reason, displayName |-> op.displayName]

\* the write saveQuizResponse call i awaits answers (part_001:194-215).  The
\* first write done, the call issues the second and is suspended again; the
\* second done, it returns true; a write that throws makes it return false.
CloudSettle(i, ok) ==
    /\ i \in 1..Len(cloudOps)
    /\ LET op == cloudOps[i]
           p == op.pass
       IN IF ok /\ op.stage = 1
          THEN /\ userStore' = MapSet(userStore, <<op.userId, op.questionId>>, StoredDoc(op))
               /\ cloudOps' = [cloudOps EXCEPT ![i].stage = 2]
               /\ UNCHANGED <<cloudStore, dataHist>>
          ELSE /\ cloudOps' = RemoveAt(cloudOps, i)
               /\ cloudStore' = IF ok
                                THEN MapSet(cloudStore, <<op.questionId, op.userId>>,
                                            StoredDoc(op))
                                ELSE cloudStore
               /\ UNCHANGED userStore
               /\ IF p = 0
                  THEN dataHist' = [dataHist EXCEPT !.event =
                           [kind |-> "return", saved |-> IF ok THEN "true" ELSE "false",
                            key |-> <<op.questionId, op.userId>>]]
                  ELSE LET results == Append(dataHist.passes[p].results, ok)
                           settled == [kind |-> "settled", pass |-> p, ok |-> ok,
                                       key |-> <<op.questionId, op.userId>>]
                       IN IF Len(results) = dataHist.passes[p].issued
                          THEN dataHist' = [dataHist EXCEPT !.passes[p] = NoPass,
                                                            !.event = ReportOf(p, results)]
                          ELSE dataHist' = [dataHist EXCEPT !.passes[p].results = results,
                                                            !.event = settled]
    /\ UNCHANGED <<hubVars, linkVars, connVars, authVars, cacheVars, peerQueries>>
    /\ UNCHANGED subVars

\* whether batch.commit() accepts the operations: an update needs its document
\* to exist by then (part_001:308-320)
RECURSIVE Committable(_, _)
Committable(store, ops) ==
    IF ops = <<>> THEN TRUE
    ELSE LET op == Head(ops)
         IN CASE op.type = "set" -> Committable(MapSet(store, op.key, op.data), Tail(ops))
              [] op.type = "update" ->
                   op.key \in DOMAIN store /\ Committable(store, Tail(ops))
              [] op.type = "delete" -> Committable(MapDelete(store, op.key), Tail(ops))

\* the quizResponses collection once the operations of a batch are applied, in
\* their order (part_001:308-320)
RECURSIVE Committed(_, _)
Committed(store, ops) ==
    IF ops = <<>> THEN store
    ELSE LET op == Head(ops)
         IN CASE op.type = "set" -> Committed(MapSet(store, op.key, op.data), Tail(ops))
              [] op.type = "update" ->
                   Committed(MapSet(store, op.key,
                                    [f \in DOMAIN store[op.key] |->
                                        IF f \in DOMAIN op.data THEN op.data[f]
                                        ELSE store[op.key][f]]),
                             Tail(ops))
              [] op.type = "delete" -> Committed(MapDelete(store, op.key), Tail(ops))

\* FirebaseConfig.batchWrite(operations) once batch.commit() settled
\* (part_001:304-328): all of the operations or none, ok the answer of the store
BatchWrite(ops, ok) ==
    /\ LET done == ok /\ Committable(cloudStore, ops)
       IN /\ cloudStore' = IF done THEN Committed(cloudStore, ops) ELSE cloudStore
          /\ dataHist' = [dataHist EXCEPT !.event =
                             [kind |-> "batch", saved |-> IF done THEN "true" ELSE "false"]]
    /\ UNCHANGED <<hubVars, linkVars, connVars, authVars, cacheVars, cloudOps, userStore,
                   peerQueries>>
    /\ UNCHANGED subVars

\* Date.now() of the page moves on
ClientTick ==
    /\ clientNow < ClientStart + MaxClientTicks
    /\ clientNow' = clientNow + 1
    /\ UNCHANGED <<hubVars, linkVars, connVars, authVars, ownResponses, responseOrder, peerData, cloudVars>>
    /\ UNCHANGED subVars

\* Date.now() of the page is set back (hybrid-data-service.js:297 reads the wall
\* clock, which the system may correct)
ClientClockBack ==
    /\ clientNow > ClientStart - MaxClientTicks
    /\ clientNow' = clientNow - 1
    /\ UNCHANGED <<hubVars, linkVars, connVars, authVars, ownResponses, responseOrder, peerData, cloudVars>>
    /\ UNCHANGED subVars

\* ------------------------------------------------------- the client's links

\* the Hub accepts the client's socket s
LinkAccept(s) ==
    /\ clientSock[s].rs = "CONNECTING"
    /\ ~clientSock[s].accepted
    /\ OnConnection(s)
    /\ clientSock' = [clientSock EXCEPT ![s].accepted = TRUE]
    /\ UNCHANGED <<toHub, connectionMode, wsConnection, wsReconnectAttempts,
                   reconnectTimers, lastLocalHubIP, connHist, authVars, cacheVars,
                   cloudVars>>
    /\ UNCHANGED subVars

\* the Hub reads the next message of the client's socket s
LinkDeliver(s) ==
    /\ toHub[s] # <<>>
    /\ OnMessage(s, Head(toHub[s]))
    /\ toHub' = [toHub EXCEPT ![s] = Tail(@)]
    /\ UNCHANGED clientVars

\* data arrives on socket s that is not JSON or has a type the client does not
\* know: the input of the catch and of the default case of handleWebSocketMessage
\* (hybrid-data-service.js:202-207)
InboundUnknown(s, m) ==
    /\ clientSock[s].rs = "OPEN"
    /\ Len(toClient[s]) < MaxQueue
    /\ toClient' = [toClient EXCEPT ![s] = Append(@, m)]
    /\ UNCHANGED <<hubVars, toHub, clientVars>>

\* the Hub's end of the client's socket s closes; what was in flight to it is lost
LinkHubClose(s) ==
    /\ OnClose(s)
    /\ toHub' = [toHub EXCEPT ![s] = <<>>]
    /\ UNCHANGED clientVars

SocketOpens == \E s \in Socks : OnOpen(s)
SocketCloses == \E s \in Socks : OnCloseEvent(s)
\* the close event of a socket that had opened
LinkCloses == \E s \in Socks : clientSock[s].rs = "OPEN" /\ OnCloseEvent(s)
SocketErrors == \E s \in Socks : OnErrorEvent(s)
ConnectTimesOut == \E s \in Socks : ConnectTimeout(s)
\* the page calls initialize() once
InitializeOnce == initialized = 0 /\ Initialize
\* the identity provider reports a user who was not signed in, the announcement
\* of the sign-in before it made
UserSignsIn == \E u \in {"u1"} : currentUser # u /\ authNotify = 0 /\ SignIn(u)
\* the dialog is confirmed with the address it was opened with, the one saved
\* before (hybrid-data-service.js:493), with a typed one (the Hub's, or one that
\* makes no URL) when none is saved, or with the input emptied
DialogConnects ==
    \E ip \in Addresses \cup {""} :
        /\ ip # "" => lastLocalHubIP \in {NULL, ip}
        /\ ConnectFromDialog(ip)
\* the application connects, to the Hub's address or to one that makes no URL
PageConnects == \E ip \in Addresses : ConnectDirect(ip)
\* the application connects to the Hub's address while it has no socket
ConnectOnce ==
    (\A s \in Socks : clientSock[s].rs = "NONE" \/ clientSock[s].closed)
    /\ ConnectDirect(HubAddress)
\* one more call of an observer with a user, whatever is still awaited
ObserverSignsIn == \E u \in Users : SignIn(u)
AnyUserSignsIn == \E u \in Users : currentUser # u /\ authNotify = 0 /\ SignIn(u)
LinkOpens == \E s \in Socks : clientSock[s].accepted /\ OnOpen(s)
LinkAccepts == \E s \in Socks : LinkAccept(s)
LinkDelivers == \E s \in Socks : LinkDeliver(s)
LinkHubCloses == \E s \in Socks : LinkHubClose(s)
Receives == \E s \in Socks : OnMessageEvent(s)
CloudSettles == \E i \in 1..MaxOps, ok \in BOOLEAN : CloudSettle(i, ok)
Subscribes == \E q \in Questions : SubscribeToQuestion(q)
Unsubscribes == \E i \in 1..MaxSubs : Unsubscribe(i)
UnsubscribesFromQuestion == \E q \in Questions : UnsubscribeFromQuestion(q)
Snapshots == \E i \in 1..MaxSubs : Snapshot(i)
QueryAnswers == \E i \in 1..MaxSubs : QueryAnswered(i)
\* the batches a page commits: a class-wide document of u1 set, then its answer
\* updated, or the document deleted
BatchKey == <<"Q1", "u1">>
BatchDoc ==
    [userId |-> "u1", questionId |-> "Q1", answer |-> "A", reason |-> "",
     displayName |-> DisplayNameOf("u1")]
Batches ==
    {<<[type |-> "set", key |-> BatchKey, data |-> BatchDoc]>>,
     <<[type |-> "update", key |-> BatchKey, data |-> [answer |-> "B"]]>>,
     <<[type |-> "delete", key |-> BatchKey]>>}
BatchWrites == \E ops \in Batches, ok \in BOOLEAN : BatchWrite(ops, ok)
GetsPeers == \E q \in CacheQuestions : GetPeerResponses(q)
PeersReturn == \E i \in 1..MaxQueries, ok \in BOOLEAN : PeerResponsesReturned(i, ok)
Submits ==
    /\ \E q \in Questions, a \in Answers, r \in Reasons : SaveResponse(q, a, r)
    /\ UNCHANGED <<hubVars, toClient, connVars, authVars, peerData, clientNow, cloudStore,
                   userStore, peerQueries>>
    /\ UNCHANGED subVars
\* saveResponse called once the writes begun before have returned
SubmitsInTurn == cloudOps = <<>> /\ Submits
\* saveResponse called with the one answer of CacheAnswers while the controller is
\* 'offline' and no write is in flight
OfflineSubmitsOne ==
    /\ connectionMode = "offline" /\ cloudOps = <<>>
    /\ \E q \in Questions, a \in CacheAnswers, r \in Reasons : SaveResponse(q, a, r)
    /\ UNCHANGED <<hubVars, toClient, connVars, authVars, peerData, clientNow, cloudStore,
                   userStore, peerQueries>>
    /\ UNCHANGED subVars
\* saveResponse called while the controller is 'offline' and no write is in flight
OfflineSubmits == connectionMode = "offline" /\ cloudOps = <<>> /\ Submits
CacheSubmits ==
    /\ cloudOps = <<>>
    /\ \E q \in CacheQuestions, a \in CacheAnswers, r \in Reasons : SaveResponse(q, a, r)
    /\ UNCHANGED <<hubVars, toClient, connVars, authVars, peerData, clientNow, cloudStore,
                   userStore, peerQueries>>
    /\ UNCHANGED subVars

\* one other participant, on the first of the peers' sockets
Peer == MaxSockets + 1
PeerConnect == OnConnection(Peer) /\ UNCHANGED <<toHub, clientVars>>
PeerSubmits == {m \in RawSubmits : m.userId = "u2"}
PeerSubmit == \E m \in PeerSubmits : OnMessage(Peer, m) /\ UNCHANGED <<toHub, clientVars>>
PeerUserSubmits == {m \in PeerSubmits : m.timestamp = 100}
PeerUserSubmit ==
    \E m \in PeerUserSubmits : OnMessage(Peer, m) /\ UNCHANGED <<toHub, clientVars>>
PeerClose == OnClose(Peer) /\ UNCHANGED <<toHub, clientVars>>
PeerIdentify ==
    OnMessage(Peer, [type |-> "identify", userId |-> "u2",
                     displayName |-> DisplayNameOf("u2")])
    /\ UNCHANGED <<toHub, clientVars>>
LinkGarbage == \E s \in Socks, m \in RawBad : InboundUnknown(s, m)

\* ---------------------------------------------------------------- start
InitHub ==
    /\ connectedClients = EmptyMap
    /\ hubSock = [c \in Conns |-> "NONE"]
    /\ responses = EmptyMap
    /\ lastWriter = EmptyMap
    /\ activeUsers = {}
    /\ hubNow = HubStart
    /\ hubRunning = TRUE
    /\ hubEvent = NoEvent
    /\ wssClients = <<>>
    /\ toHub = [s \in Socks |-> <<>>]
    /\ toClient = [s \in Socks |-> <<>>]

InitClient ==
    /\ connectionMode = "offline"
    /\ wsConnection = NoConn
    /\ wsReconnectAttempts = 0
    /\ clientSock = [s \in Socks |-> NoSocket]
    /\ reconnectTimers = 0
    /\ lastLocalHubIP = NULL
    /\ currentUser = NULL
    /\ authNotify = 0
    /\ onLine = TRUE
    /\ initialized = 0
    /\ ownResponses = EmptyMap
    /\ responseOrder = <<>>
    /\ peerData = EmptyMap
    /\ clientNow = ClientStart
    /\ cloudOps = <<>>
    /\ cloudStore = EmptyMap
    /\ userStore = EmptyMap
    /\ peerQueries = <<>>
    /\ firestoreListeners = EmptyMap
    /\ listeners = [i \in 1..MaxSubs |-> NoListener]
    /\ connHist = [auto |-> 0, stale |-> 0, returned |-> 0]
    /\ dataHist = NoDataHist

Init == InitHub /\ InitClient

NextHub == RawConnect \/ RawSubmit \/ RawSync \/ RawClosing \/ RawClose \/ Sigint \/ Tick

\* the Hub with peers that speak the wire protocol directly
SpecHub == Init /\ [][NextHub]_vars

NextUsers ==
    \/ RawConnect \/ RawIdentify \/ RawUserSubmit \/ RawSync \/ RawClosing \/ RawClose
    \/ Sigint

\* the Hub with peers that identify themselves, submit, sync and leave
SpecUsers == Init /\ [][NextUsers]_vars

NextHeartbeat ==
    \/ RawConnect \/ RawIdentify \/ RawPong \/ HeartbeatSweep \/ TerminatedClose

\* the Hub's liveness sweep over identified peers that answer its pings or go
\* silent; a socket closes only because the sweep terminated it
SpecHeartbeat == Init /\ [][NextHeartbeat]_vars

NextRetention ==
    \/ RawConnect \/ RawSubmit \/ RawSync \/ RawClose \/ CleanupSweep \/ Tick \/ Skip

\* the Hub's retention sweep, its clock jumping past the retention window
SpecRetention == Init /\ [][NextRetention]_vars

NextProtocol ==
    \/ RawConnect \/ RawIdentify \/ RawUserSubmit \/ RawSync \/ RawGarbage \/ RawClose
    \/ Sigint

\* the Hub with peers that also send what it cannot parse or does not know
SpecProtocol == Init /\ [][NextProtocol]_vars

NextConn ==
    \/ DialogConnects \/ PageConnects \/ SocketOpens \/ SocketCloses
    \/ ConnectTimesOut \/ ReconnectTimer
    \/ InitializeOnce \/ Online \/ Offline \/ UserSignsIn \/ SignedInNotice \/ SignOut

\* the client's connection-mode controller, every socket outcome left to the
\* environment
SpecConn == Init /\ [][NextConn]_vars

NextData ==
    \/ InitializeOnce \/ Online \/ Offline \/ AnyUserSignsIn \/ SignedInNotice \/ SignOut
    \/ CacheSubmits \/ CloudSettles

\* the client's cache and the remote store, two users taking turns, no Hub
SpecData == Init /\ [][NextData]_vars

NextNetwork ==
    \/ InitializeOnce \/ Online \/ Offline \/ UserSignsIn \/ SignedInNotice \/ SignOut
    \/ ConnectOnce \/ SocketOpens \/ LinkCloses \/ ReconnectTimer
    \/ SubmitsInTurn \/ CloudSettles

\* one user submitting while the network comes and goes and a link to the Hub
\* opens and closes
SpecNetwork == Init /\ [][NextNetwork]_vars

NextSubs ==
    \/ InitializeOnce \/ UserSignsIn \/ SignedInNotice \/ SignOut
    \/ Subscribes \/ Unsubscribes \/ UnsubscribesFromQuestion \/ Snapshots \/ QueryAnswers
    \/ ConnectOnce \/ LinkAccepts \/ LinkOpens \/ Receives
    \/ PeerConnect \/ PeerUserSubmit

\* subscriptions made in each mode, a user signing in and out, and another
\* participant whose responses reach the client over its link
SpecSubs == Init /\ [][NextSubs]_vars

NextSubmit ==
    \/ InitializeOnce \/ UserSignsIn \/ SignedInNotice
    \/ ConnectOnce \/ LinkAccepts \/ LinkOpens \/ LinkDelivers \/ LinkCloses
    \/ SubmitsInTurn \/ CloudSettles

\* one user submitting in each mode, the Hub at the other end of the link
SpecSubmit == Init /\ [][NextSubmit]_vars

NextPeers ==
    \/ InitializeOnce \/ UserSignsIn \/ SignedInNotice \/ Offline
    \/ ConnectOnce \/ LinkAccepts \/ LinkOpens \/ Receives
    \/ PeerConnect \/ PeerUserSubmit
    \/ SubmitsInTurn \/ CloudSettles \/ GetsPeers \/ PeersReturn

\* the page reading the responses of a question in each mode, the cache filled
\* over the link and the remote store by the user's own submissions
SpecPeers == Init /\ [][NextPeers]_vars

NextShutdown ==
    \/ RawConnect \/ RawIdentify \/ RawClosing \/ RawClose \/ RawPong
    \/ HeartbeatSweep \/ TerminatedClose \/ CleanupSweep \/ Sigint

\* the Hub running both of its sweeps until the termination signal arrives
SpecShutdown == Init /\ [][NextShutdown]_vars

NextInbound ==
    \/ UserSignsIn \/ ConnectOnce \/ LinkAccepts \/ LinkOpens \/ LinkDelivers
    \/ Receives \/ LinkGarbage \/ Submits
    \/ PeerConnect \/ PeerIdentify \/ PeerUserSubmit \/ PeerClose

\* a client on a link that carries every kind of message the Hub sends, and
\* data the client cannot parse or does not know
SpecInbound == Init /\ [][NextInbound]_vars

NextStats ==
    \/ RawConnect \/ RawIdentify \/ RawUserSubmit \/ RawQuery \/ RawClose \/ Sigint

\* the Hub with peers that also ask for pong and for statistics
SpecStats == Init /\ [][NextStats]_vars

NextStore ==
    \/ InitializeOnce \/ UserSignsIn \/ SignedInNotice \/ Offline \/ Online
    \/ OfflineSubmits \/ ClientClockBack \/ CloudSettles
    \/ PeerConnect \/ PeerSubmit

\* submissions cached while offline under a wall clock that may be set back, then
\* replayed to the remote store; another participant submitting to the Hub
SpecStore == Init /\ [][NextStore]_vars

NextSession ==
    \/ InitializeOnce \/ UserSignsIn \/ SignedInNotice \/ SignOut
    \/ ConnectOnce \/ LinkAccepts \/ LinkOpens \/ Receives \/ LinkCloses
    \/ ReconnectTimer
    \/ OfflineSubmitsOne \/ CloudSettles
    \/ PeerConnect \/ PeerUserSubmit

\* a whole session of the controller: sign-in and sign-out, a link that opens,
\* closes and is retried, submissions cached while offline and replayed, and
\* another participant's responses arriving over the link
SpecSession == Init /\ [][NextSession]_vars

NextRejoin ==
    \/ UserSignsIn \/ ConnectOnce \/ LinkAccepts \/ LinkOpens \/ LinkDelivers
    \/ Receives \/ Submits \/ LinkCloses \/ LinkHubCloses

\* one user submitting over a link to the Hub that closes and is opened again
SpecRejoin == Init /\ [][NextRejoin]_vars

NextLink ==
    \/ UserSignsIn \/ PageConnects \/ ConnectTimesOut
    \/ LinkAccepts \/ LinkOpens \/ LinkDelivers \/ SocketErrors \/ SocketCloses
    \/ LinkHubCloses

\* connect requests that may overlap, each socket accepted by the Hub before it
\* signals ready
SpecLink == Init /\ [][NextLink]_vars

NextCache ==
    \/ InitializeOnce \/ UserSignsIn \/ SignedInNotice \/ SignOut
    \/ ConnectOnce \/ SocketOpens \/ LinkCloses \/ ReconnectTimer
    \/ SubmitsInTurn \/ CloudSettles \/ BatchWrites

\* one user submitting in each of the three modes
SpecCache == Init /\ [][NextCache]_vars

NextStartup ==
    \/ Initialize \/ Online \/ Offline
    \/ ObserverSignsIn \/ SignedInNotice \/ SignOut \/ FirebaseSignOut
    \/ ConnectOnce \/ SocketOpens
    \/ OfflineSubmitsOne \/ CloudSettles

\* a page that may call initialize() again and observers called in any order:
\* sign-ins announced late, a sign-out with nobody signed in, the link opening
\* in between, responses cached while offline
SpecStartup == Init /\ [][NextStartup]_vars

Next ==
    \/ ConnectOnce \/ LinkAccepts \/ LinkOpens \/ LinkDelivers \/ Receives
    \/ UserSignsIn \/ Submits
    \/ PeerConnect \/ PeerSubmit \/ PeerClose \/ Tick

\* one client and one other participant on a Hub whose links stay up
Spec == Init /\ [][Next]_vars

\* ======================================================================
\* Properties
\* ======================================================================

\* the entries of a handler's sends that are of type t
SentOfType(sent, t) == {i \in 1..Len(sent) : sent[i].msg.type = t}

\* e carries the payload of submit_response m (a timestamp m lacks is the Hub's to
\* fill in)
SamePayload(e, m) ==
    /\ e.questionId = m.questionId
    /\ e.answer = m.answer
    /\ e.reason = m.reason
    /\ e.userId = m.userId
    /\ e.displayName = m.displayName
    /\ (m.timestamp # 0 => e.timestamp = m.timestamp)
    /\ (m.timestamp = 0 => e.timestamp >= HubStart)

\* C1: each submit_response the Hub handles leaves its payload stored under
\* (questionId, userId), whatever was stored there and whatever its timestamp, and
\* changes no other key; so the stored value is that of the last one applied.
C1_LastAppliedWins ==
    [][(hubEvent'.kind = "submit_response" /\ hubEvent' # hubEvent) =>
         LET m == hubEvent'.msg
             k == <<m.questionId, m.userId>>
         IN /\ Keys(responses') = Keys(responses) \cup {k}
            /\ SamePayload(responses'[k[1]][k[2]], m)
            /\ responses'[k[1]][k[2]].timestamp = OrNow(m.timestamp, hubEvent'.now)
            /\ \A o \in Keys(responses) \ {k} :
                   responses'[o[1]][o[2]] = responses[o[1]][o[2]]]_vars

\* C1 witness: a submission with the older timestamp 50 was applied while another
\* user's response is stored
C1_Witness ==
    /\ hubEvent.kind = "submit_response"
    /\ hubEvent.msg.timestamp = 50
    /\ Cardinality(Keys(responses)) = 2
    /\ responses[hubEvent.msg.questionId][hubEvent.msg.userId].timestamp = 50

\* C4: on accepting a connection while responses is non-empty the Hub sends it
\* welcome and then one bulk_update holding every stored response, one element
\* per stored key, with no request_sync involved.
C4_BulkOnConnection ==
    (hubEvent.kind = "connection" /\ Keys(responses) # {}) =>
        LET c == hubEvent.conn
            sent == hubEvent.sent
        IN /\ Len(sent) = 2
           /\ sent[1].to = c /\ sent[1].msg.type = "welcome"
           /\ sent[2].to = c /\ sent[2].msg.type = "bulk_update"
           /\ Cardinality(sent[2].msg.responses) = Cardinality(Keys(responses))
           /\ \A k \in Keys(responses) :
                  \E e \in sent[2].msg.responses :
                      LET r == responses[k[1]][k[2]]
                      IN /\ e.questionId = k[1] /\ e.userId = k[2]
                         /\ e.answer = r.answer /\ e.reason = r.reason
                         /\ e.displayName = r.displayName
                         /\ e.timestamp = r.timestamp

\* C4 witness: a connection accepted while two responses are stored
C4_Witness ==
    /\ hubEvent.kind = "connection"
    /\ Cardinality(Keys(responses)) = 2
    /\ Len(hubEvent.sent) = 2

\* what C5 says of the peer_response copies of one submit_response
PeerCopies(c, m, sent) ==
    /\ \A p \in Conns :
           (p # c /\ hubSock[p] = "OPEN") =>
               Cardinality({i \in SentOfType(sent, "peer_response") : sent[i].to = p}) = 1
    /\ \A i \in SentOfType(sent, "peer_response") :
           /\ sent[i].to # c
           /\ hubSock[sent[i].to] = "OPEN"
           /\ SamePayload(sent[i].msg, m)

\* C5 as stated: peer_response to every other open connection and never to the
\* sender, and exactly one response_confirmed, to the sender only.
C5_Original ==
    hubEvent.kind = "submit_response" =>
        LET c == hubEvent.conn
            sent == hubEvent.sent
        IN /\ PeerCopies(c, hubEvent.msg, sent)
           /\ Cardinality(SentOfType(sent, "response_confirmed")) = 1
           /\ \A i \in SentOfType(sent, "response_confirmed") : sent[i].to = c

\* C5 amended: peer_response to every other open connection and never to the
\* sender; response_confirmed goes to the sender only, exactly once when the
\* sender's socket is open at the Hub and not at all when the Hub is closing it.
C5_FanOut ==
    hubEvent.kind = "submit_response" =>
        LET c == hubEvent.conn
            sent == hubEvent.sent
        IN /\ PeerCopies(c, hubEvent.msg, sent)
           /\ Cardinality(SentOfType(sent, "response_confirmed")) =
                  (IF hubSock[c] = "OPEN" THEN 1 ELSE 0)
           /\ \A i \in SentOfType(sent, "response_confirmed") : sent[i].to = c
           /\ Len(sent) = Cardinality(SentOfType(sent, "peer_response"))
                          + Cardinality(SentOfType(sent, "response_confirmed"))

\* C5 witness: a submission from an open socket while one peer is open and another
\* is closing
C5_Witness ==
    /\ hubEvent.kind = "submit_response"
    /\ hubSock[hubEvent.conn] = "OPEN"
    /\ \E p, q \in Conns \ {hubEvent.conn} :
           /\ hubSock[p] = "OPEN"
           /\ hubSock[q] = "CLOSING_PEER"
           /\ \E i \in 1..Len(hubEvent.sent) :
                  hubEvent.sent[i].to = p /\ hubEvent.sent[i].msg.type = "peer_response"
    /\ \E i \in 1..Len(hubEvent.sent) : hubEvent.sent[i].msg.type = "response_confirmed"

\* ------------------------------------------------------------ Hub sessions

\* how many messages of type t about user u the handler sent to socket d
SentTo(sent, d, t) ==
    Cardinality({i \in 1..Len(sent) : sent[i].to = d /\ sent[i].msg.type = t})

\* every response the Hub stores
Stored(resp) == {resp[k[1]][k[2]] : k \in Keys(resp)}

\* every stored response as bulk_update lists it
Listed(resp) == {PeerResponseOf(r) : r \in Stored(resp)}

\* C11: the close of a Hub socket removes it from connectedClients; if it was
\* identified, its userId leaves activeUsers and user_disconnected goes once to
\* every other open socket and not to the closed one; responses is untouched,
\* and a sync_response sent later lists every stored response.
C11_CloseKeepsResponses ==
    [][/\ (hubEvent'.kind = "close" /\ hubEvent' # hubEvent) =>
            LET c == hubEvent'.conn
                info == connectedClients[c]
                sent == hubEvent'.sent
            IN /\ c \notin DOMAIN connectedClients'
               /\ DOMAIN connectedClients' = DOMAIN connectedClients \ {c}
               /\ responses' = responses
               /\ IF info.userId # NULL
                  THEN /\ activeUsers' = activeUsers \ {info.userId}
                       /\ \A d \in Conns :
                            SentTo(sent, d, "user_disconnected") =
                               IF d # c /\ hubSock[d] = "OPEN" THEN 1 ELSE 0
                       /\ \A i \in 1..Len(sent) : sent[i].msg.userId = info.userId
                  ELSE activeUsers' = activeUsers /\ sent = <<>>
       /\ (hubEvent'.kind = "request_sync" /\ hubEvent'.sent # <<>>) =>
            hubEvent'.sent[1].msg.responses = Stored(responses')
       /\ (hubEvent'.kind = "connection" /\ Len(hubEvent'.sent) = 2) =>
            hubEvent'.sent[2].msg.responses = Listed(responses')]_vars

\* C11 witness: an identified socket has closed, another socket was told, and a
\* response of the user who left is still stored
C11_Witness ==
    /\ hubEvent.kind = "close"
    /\ hubEvent.sent # <<>>
    /\ hubEvent.sent[1].msg.userId \notin activeUsers
    /\ \E r \in Stored(responses) : r.userId = hubEvent.sent[1].msg.userId

\* C12: a heartbeat sweep marks every registered connection that was alive as not
\* alive and leaves its socket as it is, and terminates every connection that is
\* still marked not alive; only a pong marks a connection alive again and only a
\* sweep marks it not alive, so a connection silent since a sweep is terminated by
\* the next one. The close of a terminated socket removes it from
\* connectedClients and its userId from activeUsers and sends user_disconnected
\* once to every other open socket and not to the terminated one.
C12_SilentTerminated ==
    [][/\ hubEvent'.kind = "heartbeat" =>
            /\ DOMAIN connectedClients' = DOMAIN connectedClients
            /\ activeUsers' = activeUsers
            /\ \A c \in DOMAIN connectedClients :
                 IF connectedClients[c].isAlive
                 THEN hubSock'[c] = hubSock[c] /\ ~connectedClients'[c].isAlive
                 ELSE hubSock'[c] = "TERMINATED"
       /\ hubEvent'.kind = "pong" => connectedClients'[hubEvent'.conn].isAlive
       /\ hubEvent'.kind \notin {"heartbeat", "pong"} =>
            /\ \A c \in DOMAIN connectedClients \cap DOMAIN connectedClients' :
                 connectedClients'[c].isAlive = connectedClients[c].isAlive
            /\ \A c \in DOMAIN connectedClients' \ DOMAIN connectedClients :
                 connectedClients'[c].isAlive
       /\ hubEvent'.kind = "close" =>
            LET c == hubEvent'.conn
                info == connectedClients[c]
                sent == hubEvent'.sent
            IN /\ hubSock[c] = "TERMINATED"
               /\ c \notin DOMAIN connectedClients'
               /\ info.userId # NULL =>
                    /\ info.userId \notin activeUsers'
                    /\ \A d \in Conns :
                         SentTo(sent, d, "user_disconnected") =
                            IF d # c /\ hubSock[d] = "OPEN" THEN 1 ELSE 0]_vars

\* C12 witness: of three identified connections the second was terminated and has
\* closed; user_disconnected went to the first and the third only, and the second
\* is in neither connectedClients nor activeUsers
C12_Witness ==
    LET first == MaxSockets + 1
        second == MaxSockets + 2
        third == MaxSockets + 3
    IN /\ hubEvent.kind = "close"
       /\ hubEvent.conn = second
       /\ {hubEvent.sent[i].to : i \in 1..Len(hubEvent.sent)} = {first, third}
       /\ Len(hubEvent.sent) = 2
       /\ \A i \in 1..Len(hubEvent.sent) :
            /\ hubEvent.sent[i].msg.type = "user_disconnected"
            /\ hubEvent.sent[i].msg.userId \notin activeUsers
       /\ DOMAIN connectedClients = {first, third}
       /\ connectedClients[first].userId # NULL
       /\ connectedClients[third].userId # NULL

\* C13: right after a retention sweep run at Hub time t, responses holds no
\* response with timestamp < t - SESSION_TIMEOUT and no question whose user map is
\* empty, and every response not older than that is still stored, unchanged; a
\* sync_response or bulk_update sent at any time lists exactly the responses
\* then stored, so a deleted response is in none sent afterwards.
C13_RetentionSweep ==
    [][/\ hubEvent'.kind = "cleanup" =>
            LET t == hubEvent'.now
            IN /\ t = hubNow
               /\ \A k \in Keys(responses') :
                    ~(responses'[k[1]][k[2]].timestamp < t - 3600000)
               /\ \A q \in DOMAIN responses' : DOMAIN responses'[q] # {}
               /\ Keys(responses') \subseteq Keys(responses)
               /\ \A k \in Keys(responses) :
                    responses[k[1]][k[2]].timestamp >= t - 3600000 =>
                       /\ k \in Keys(responses')
                       /\ responses'[k[1]][k[2]] = responses[k[1]][k[2]]
       /\ (hubEvent'.kind = "request_sync" /\ hubEvent'.sent # <<>>) =>
            \A r \in hubEvent'.sent[1].msg.responses :
               /\ <<r.questionId, r.userId>> \in Keys(responses')
               /\ r = responses'[r.questionId][r.userId]
       /\ (hubEvent'.kind = "connection" /\ Len(hubEvent'.sent) = 2) =>
            \A r \in hubEvent'.sent[2].msg.responses :
               /\ <<r.questionId, r.userId>> \in Keys(responses')
               /\ r.timestamp = responses'[r.questionId][r.userId].timestamp
               /\ r.answer = responses'[r.questionId][r.userId].answer]_vars

\* C13 witness: a sweep has just deleted a response older than the window and
\* kept one whose timestamp is exactly the window's edge
C13_Witness ==
    /\ hubEvent.kind = "cleanup"
    /\ hubEvent.msg.removedCount >= 1
    /\ \E k \in Keys(responses) :
          responses[k[1]][k[2]].timestamp = hubEvent.now - 3600000

\* what every request_sync does: responses, activeUsers and connectedClients
\* stay as they are and whatever is sent is a sync_response to the sender
SyncContained ==
    LET c == hubEvent'.conn
        sent == hubEvent'.sent
    IN /\ responses' = responses
       /\ activeUsers' = activeUsers
       /\ connectedClients' = connectedClients
       /\ \A i \in 1..Len(sent) : sent[i].to = c /\ sent[i].msg.type = "sync_response"

\* C14 as stated: request_sync changes neither responses nor activeUsers nor
\* connectedClients; it is answered with one sync_response, to the sender only,
\* listing every stored response and the active users; and two request_sync
\* handled one after the other are answered with the same responses and the
\* same active users.
C14_Original ==
    [][(hubEvent'.kind = "request_sync" /\ hubEvent' # hubEvent) =>
          LET sent == hubEvent'.sent
          IN /\ SyncContained
             /\ Len(sent) = 1
             /\ sent[1].msg.responses = Stored(responses)
             /\ sent[1].msg.activeUsers = activeUsers
             /\ hubEvent.kind = "request_sync" =>
                   /\ Len(hubEvent.sent) = 1
                   /\ sent[1].msg.responses = hubEvent.sent[1].msg.responses
                   /\ sent[1].msg.activeUsers = hubEvent.sent[1].msg.activeUsers]_vars

\* C14 amended: request_sync changes neither responses nor activeUsers nor
\* connectedClients; it is answered to the sender only, with one sync_response
\* listing every stored response and the active users when the sender's socket
\* is open at the Hub and with nothing when the Hub is already closing it; and
\* two request_sync handled one after the other and both answered get the same
\* responses and the same active users.
C14_SyncIdempotent ==
    [][(hubEvent'.kind = "request_sync" /\ hubEvent' # hubEvent) =>
          LET c == hubEvent'.conn
              sent == hubEvent'.sent
          IN /\ SyncContained
             /\ Len(sent) = IF hubSock[c] = "OPEN" THEN 1 ELSE 0
             /\ sent # <<>> =>
                   /\ sent[1].msg.responses = Stored(responses)
                   /\ sent[1].msg.activeUsers = activeUsers
                   /\ (hubEvent.kind = "request_sync" /\ hubEvent.sent # <<>>) =>
                         /\ sent[1].msg.responses = hubEvent.sent[1].msg.responses
                         /\ sent[1].msg.activeUsers = hubEvent.sent[1].msg.activeUsers]_vars

\* C14 witness: a second request_sync in a row, from another socket, was answered
\* with both stored responses and a non-empty list of active users
C14_Witness ==
    /\ hubEvent.kind = "request_sync"
    /\ hubEvent.sent # <<>>
    /\ Cardinality(hubEvent.sent[1].msg.responses) = 2
    /\ hubEvent.sent[1].msg.activeUsers # {}
    /\ Cardinality(DOMAIN connectedClients) >= 2

\* C15: identify from socket c records userId and displayName on c, adds userId to
\* activeUsers, sends user_joined once to every open socket other than c and not
\* to c, and sends identified to c and to no other socket.
C15_Identify ==
    [][(hubEvent'.kind = "identify" /\ hubEvent' # hubEvent) =>
          LET c == hubEvent'.conn
              m == hubEvent'.msg
              sent == hubEvent'.sent
          IN /\ connectedClients'[c].userId = m.userId
             /\ connectedClients'[c].displayName = m.displayName
             /\ activeUsers' = activeUsers \cup {m.userId}
             /\ \A d \in Conns :
                  /\ SentTo(sent, d, "user_joined") =
                        IF d # c /\ hubSock[d] = "OPEN" THEN 1 ELSE 0
                  /\ d # c => SentTo(sent, d, "identified") = 0
             /\ SentTo(sent, c, "identified") <= 1]_vars

\* ------------------------------------------------------------ convergence

\* nothing is in flight on any of the client's links, and link s is open at both
\* ends
Quiet(s) ==
    /\ clientSock[s].rs = "OPEN" /\ hubSock[s] = "OPEN"
    /\ \A t \in Socks : toClient[t] = <<>> /\ toHub[t] = <<>>

\* C2: once everything in flight is delivered, a client with an open link holds
\* in peerData, for every key the Hub last stored from another connection, the
\* answer, reason, displayName and timestamp the Hub stores
C2_Converged ==
    \A s \in Socks : Quiet(s) =>
        \A k \in Keys(responses) : lastWriter[k] # s =>
            /\ k \in Keys(peerData)
            /\ peerData[k[1]][k[2]] = PeerEntry(responses[k[1]][k[2]])

\* --------------------------------------------------------- cache and store

\* C3: a saveResponse call of a signed-in user has the new response in
\* localCache.responses when it reaches the transport, whatever the mode, and the
\* key is still cached when the call has returned, with true or with false
C3_CacheFirst ==
    LET e == dataHist.event
    IN /\ e.kind = "save" => e.cached /\ Cached(ownResponses, e.response)
       /\ e.kind = "return" => e.key \in Keys(ownResponses)

\* C3 witness: a saveResponse call in 'cloud' has returned false and the key is
\* cached
C3_Witness ==
    /\ dataHist.event.kind = "return"
    /\ dataHist.event.saved = "false"
    /\ dataHist.event.key \in Keys(ownResponses)

\* C6: each reconcile pass started adds one remote write per cached response of
\* the current user, carrying its question, answer and reason, and none for any
\* other; writes appear only through saveResponse or a pass; and a write that
\* settles, failed or not, takes only itself off the pending ones
C6_ReconcileIssues ==
    [][LET e == dataHist'.event
           new == SubSeq(cloudOps', Len(cloudOps) + 1, Len(cloudOps'))
           mine == {k \in Keys(ownResponses) : k[2] = currentUser}
           started == {p \in 1..MaxPasses :
                          ~dataHist.passes[p].active /\ dataHist'.passes[p].active}
       IN /\ Len(cloudOps') > Len(cloudOps) =>
                /\ e.kind \in {"save", "sync"}
                /\ SubSeq(cloudOps', 1, Len(cloudOps)) = cloudOps
          /\ (e.kind = "sync" /\ dataHist' # dataHist) =>
                /\ started # {}
                /\ \A i \in 1..Len(new) : new[i].pass \in started
                /\ \A p \in started :
                       /\ Len(SelectSeq(new, LAMBDA o : o.pass = p)) = Cardinality(mine)
                       /\ \A k \in mine : \E i \in 1..Len(new) :
                              /\ new[i].pass = p
                              /\ new[i].questionId = k[1] /\ new[i].userId = k[2]
                              /\ new[i].answer = ownResponses[k[1]][k[2]].answer
                              /\ new[i].reason = ownResponses[k[1]][k[2]].reason
          /\ (e.kind = "report" /\ dataHist' # dataHist /\ e.issued = 0) =>
                mine = {} /\ cloudOps' = cloudOps
          /\ Len(cloudOps') < Len(cloudOps) =>
                \E i \in 1..Len(cloudOps) : cloudOps' = RemoveAt(cloudOps, i)]_vars

\* C6 witness: one write of a two-write pass has failed, the other is still
\* pending, and the cache holds a response of another user
C6_Witness ==
    /\ dataHist.event.kind = "settled" /\ ~dataHist.event.ok
    /\ Len(cloudOps) = 1 /\ cloudOps[1].pass = dataHist.event.pass
    /\ \E k \in Keys(ownResponses) : k[2] # currentUser

\* C7: the counts a pass reports add up to the writes it issued, and failed is
\* the number of writes that did not go through
C7_ReportCounts ==
    LET e == dataHist.event
    IN e.kind = "report" =>
          /\ e.successful + e.failed = e.issued
          /\ e.failed = e.falses

\* ------------------------------------------------------- reconnect policy
LiveSockets == {s \in Socks : clientSock[s].rs \in {"CONNECTING", "OPEN"}}

\* C8: the attempt counter stays within 0..5, and no more than 5 sockets are
\* opened by reconnect timers between one open link (or one give-up) and the next
C8_ReconnectCap ==
    /\ wsReconnectAttempts \in 0..maxReconnectAttempts
    /\ connHist.auto <= maxReconnectAttempts

\* C9: the controller is never left in 'local' with no socket connecting or open
\* and no reconnect timer pending, a state nothing of its own leads out of
C9_NeverStranded ==
    ~(connectionMode = "local" /\ LiveSockets = {} /\ reconnectTimers = 0)

\* C10: a reconnect timer that was pending when the controller left 'local' by
\* sign-out, network loss or a move to 'cloud' never opens a socket
C10_Cancelled == \A s \in Socks : clientSock[s].origin # "stale"

\* ------------------------------------------------------- network events

\* C16: an 'online' event while a user is signed in sets connectionMode to
\* 'cloud' and starts a reconcile pass for each listener initialize() registered,
\* each issuing one remote write per cached response of that user; an 'online'
\* event with no user signed in changes neither the mode nor the pending writes
\* nor the passes.
C16_NetworkRestored ==
    [][(~onLine /\ onLine' /\ initialized > 0) =>
          IF currentUser # NULL
          THEN LET mine == {k \in Keys(ownResponses) : k[2] = currentUser}
                   n == Cardinality(mine)
                   e == dataHist'.event
                   started == {p \in 1..MaxPasses :
                                  ~dataHist.passes[p].active /\ dataHist'.passes[p].active}
               IN /\ connectionMode' = "cloud"
                  /\ Len(cloudOps') = Len(cloudOps) + initialized * n
                  /\ n > 0 => /\ e.kind = "sync" /\ e.caller = "online"
                              /\ e.user = currentUser /\ e.issued = n
                              /\ dataHist'.passes[e.pass].active
                              /\ Cardinality(started) = initialized
                  /\ n = 0 => e.kind = "report" /\ e.issued = 0
          ELSE /\ connectionMode' = connectionMode
               /\ cloudOps' = cloudOps
               /\ dataHist' = dataHist]_vars

\* C16 witness: the network came back while the controller was in 'local' with a
\* link open; it is now in 'cloud' and the pass it started has a write pending
C16_Witness ==
    /\ onLine
    /\ connectionMode = "cloud"
    /\ dataHist.event.kind = "sync" /\ dataHist.event.caller = "online"
    /\ dataHist.event.issued >= 1
    /\ Len(cloudOps) >= 1
    /\ wsConnection # NoConn /\ clientSock[wsConnection].rs = "OPEN"

\* C17: an 'offline' event sets connectionMode to 'offline' and leaves every
\* socket, this.wsConnection and the caches as they are; a socket that closes
\* while connectionMode is not 'local' schedules no reconnect and leaves
\* connectionMode and wsReconnectAttempts unchanged.
C17_NetworkLost ==
    [][/\ (onLine /\ ~onLine' /\ initialized > 0) =>
            /\ connectionMode' = "offline"
            /\ clientSock' = clientSock
            /\ wsConnection' = wsConnection
            /\ ownResponses' = ownResponses
            /\ peerData' = peerData
       /\ \A s \in Socks :
            (/\ clientSock[s].rs \in {"CONNECTING", "OPEN"}
             /\ clientSock'[s].rs = "NONE" \/ clientSock'[s].closed
             /\ connectionMode # "local") =>
                /\ reconnectTimers' = reconnectTimers
                /\ connectionMode' = connectionMode
                /\ wsReconnectAttempts' = wsReconnectAttempts]_vars

\* C17 witness: a response was saved over the open link, the network was lost,
\* and the link has closed since: the controller is in 'offline', no reconnect
\* is pending and the counter is still 0
C17_Witness ==
    /\ ~onLine
    /\ connectionMode = "offline"
    /\ dataHist.event.kind = "save" /\ dataHist.event.mode = "local"
    /\ \A s \in Socks : clientSock[s].rs = "NONE"
    /\ wsConnection = NoConn
    /\ reconnectTimers = 0
    /\ wsReconnectAttempts = 0

\* ------------------------------------------------------- connect requests

\* C18: whenever a connect request reports success (its promise resolves at
\* onopen, or the call returns true at once because a link is already open) the
\* controller is in 'local' with wsReconnectAttempts = 0.
C18_SuccessMeansLocal ==
    [][/\ connHist'.returned # connHist.returned =>
            connectionMode' = "local" /\ wsReconnectAttempts' = 0
       /\ \A s \in Socks :
            (clientSock[s].promise = "pending" /\ clientSock'[s].promise = "resolved") =>
               connectionMode' = "local" /\ wsReconnectAttempts' = 0]_vars

\* C19: a connect request whose timeout fires before its socket opened is
\* rejected, and no later signal of that socket (its opening or its close)
\* changes connectionMode.
C19_FailureKeepsMode ==
    [][\A s \in Socks :
         /\ (clientSock[s].promise = "pending" /\ clientSock[s].timer
               /\ ~clientSock'[s].timer /\ clientSock'[s].rs = "CONNECTING") =>
                  clientSock'[s].promise = "rejected" /\ connectionMode' = connectionMode
         /\ (clientSock[s].promise = "rejected" /\ clientSock'[s].rs # clientSock[s].rs) =>
               connectionMode' = connectionMode]_vars

\* C20: when a connect request made by the user has its outcome (resolved or
\* rejected), wsReconnectAttempts is 0.
C20_UserConnectResets ==
    [][\A s \in Socks :
         (/\ clientSock[s].origin = "user"
          /\ clientSock[s].promise = "pending"
          /\ clientSock'[s].promise \in {"resolved", "rejected"}) =>
             wsReconnectAttempts' = 0]_vars

\* ------------------------------------------------------- protocol errors

\* what the claim says of a message the Hub cannot parse or does not know, but
\* for the number of error replies: they go to the sender only, and responses,
\* activeUsers, connectedClients and every socket stay as they are
ErrorContained ==
    LET c == hubEvent'.conn
        sent == hubEvent'.sent
    IN /\ \A i \in 1..Len(sent) : sent[i].to = c /\ sent[i].msg.type = "error"
       /\ responses' = responses
       /\ activeUsers' = activeUsers
       /\ connectedClients' = connectedClients
       /\ c \in DOMAIN connectedClients'
       /\ hubSock' = hubSock

\* C30 as stated: a message of unknown type or that cannot be parsed makes the
\* Hub send one error message, to the sender only, and changes nothing else.
C30_Original ==
    [][(hubEvent'.kind = "error" /\ hubEvent' # hubEvent) =>
          ErrorContained /\ Len(hubEvent'.sent) = 1]_vars

\* C30 amended: such a message changes nothing at the Hub and is answered to the
\* sender only, with one error message when the sender's socket is open at the
\* Hub and with none when the Hub is already closing it.
C30_ErrorReply ==
    [][(hubEvent'.kind = "error" /\ hubEvent' # hubEvent) =>
          /\ ErrorContained
          /\ Len(hubEvent'.sent) = IF hubSock[hubEvent'.conn] = "OPEN" THEN 1 ELSE 0]_vars

\* C30 witness: an unparseable message was answered with an error while another
\* socket was open and responses were stored
C30_Witness ==
    /\ hubEvent.kind = "error"
    /\ hubEvent.msg = BadJson
    /\ Len(hubEvent.sent) = 1
    /\ hubSock[hubEvent.conn] = "OPEN"
    /\ \E d \in Conns \ {hubEvent.conn} : hubSock[d] = "OPEN"
    /\ Keys(responses) # {}
    /\ activeUsers # {}

\* C32: a heartbeat sweep leaves alone the socket of every connection marked
\* alive; a connection is marked alive when it is accepted and each time its pong
\* arrives, and nothing but a sweep takes the mark away. So a connection whose
\* pong arrives between any two sweeps, and a connection accepted since the last
\* sweep, is not terminated by the sweep.
C32_AnsweringSurvives ==
    [][/\ (hubEvent'.kind = "heartbeat") =>
            \A c \in DOMAIN connectedClients :
               connectedClients[c].isAlive =>
                  /\ hubSock'[c] = hubSock[c]
                  /\ c \in DOMAIN connectedClients'
       /\ (hubEvent'.kind \in {"pong", "connection"}) =>
            connectedClients'[hubEvent'.conn].isAlive
       /\ (hubEvent'.kind # "heartbeat") =>
            \A c \in DOMAIN connectedClients \cap DOMAIN connectedClients' :
               connectedClients[c].isAlive => connectedClients'[c].isAlive
       /\ \A c \in Conns :
            (hubSock[c] # "TERMINATED" /\ hubSock'[c] = "TERMINATED") =>
               hubEvent'.kind = "heartbeat"]_vars

\* C32 witness: a sweep has just run over three registered sockets: it terminated
\* one, and left open two that it now waits to hear from
C32_Witness ==
    /\ hubEvent.kind = "heartbeat"
    /\ Cardinality({c \in DOMAIN connectedClients :
                       hubSock[c] = "OPEN" /\ ~connectedClients[c].isAlive}) = 2
    /\ Cardinality({c \in DOMAIN connectedClients : hubSock[c] = "TERMINATED"}) = 1

\* the message types handleWebSocketMessage folds into localCache.peerData
Folded == {"peer_response", "bulk_update", "sync_response"}

\* C33: handling an inbound message never changes connectionMode or
\* localCache.responses, and handling one that is not a peer_response, bulk_update
\* or sync_response (welcome, user_joined, user_disconnected, response_confirmed,
\* an unknown type, unparseable data) completes and changes nothing but the
\* queue it was taken from: not wsReconnectAttempts, not localCache.peerData, not
\* the socket.
C33_InboundFrame ==
    [][\A s \in Socks :
          (/\ toClient[s] # <<>> /\ toClient'[s] = Tail(toClient[s])
           /\ hubEvent' = hubEvent /\ clientSock[s].rs = "OPEN") =>
          /\ connectionMode' = connectionMode
          /\ ownResponses' = ownResponses
          /\ Head(toClient[s]).type \notin Folded =>
                /\ peerData' = peerData
                /\ wsReconnectAttempts' = wsReconnectAttempts
                /\ clientSock' = clientSock /\ wsConnection' = wsConnection
                /\ toHub' = toHub /\ cloudOps' = cloudOps]_vars

\* C33 witness: the client has handled the user_disconnected the Hub sent it when
\* the other participant left, and both caches are as full as before
C33_Witness ==
    /\ Keys(ownResponses) # {} /\ Keys(peerData) # {}
    /\ connectionMode = "local"
    /\ hubEvent.kind = "close" /\ Len(hubEvent.sent) = 1
    /\ hubEvent.sent[1].msg.type = "user_disconnected"
    /\ LET s == hubEvent.sent[1].to
       IN s \in Socks /\ clientSock[s].rs = "OPEN" /\ toClient[s] = <<>>

\* C35: activeUsers is exactly the set of the userIds recorded on the connections
\* registered in connectedClients.
C35_ActiveUsersExact ==
    activeUsers = {connectedClients[c].userId : c \in DOMAIN connectedClients} \ {NULL}

\* ------------------------------------------------------- queries

\* what the claim says of ping and get_stats, but for the number of replies: they
\* go to the sender only and are a pong, respectively a stats whose counts are the
\* sizes of connectedClients, activeUsers and the stored responses; responses,
\* activeUsers, connectedClients and every socket stay as they are
QueryContained ==
    LET c == hubEvent'.conn
        sent == hubEvent'.sent
        reply == IF hubEvent'.kind = "ping" THEN "pong" ELSE "stats"
    IN /\ \A i \in 1..Len(sent) :
            /\ sent[i].to = c /\ sent[i].msg.type = reply
            /\ reply = "stats" =>
                  /\ sent[i].msg.connectedClients = Cardinality(DOMAIN connectedClients)
                  /\ sent[i].msg.activeUsers = Cardinality(activeUsers)
                  /\ sent[i].msg.totalResponses = Cardinality(Stored(responses))
       /\ responses' = responses
       /\ activeUsers' = activeUsers
       /\ connectedClients' = connectedClients
       /\ hubSock' = hubSock

\* C34 as stated: ping and get_stats change nothing at the Hub and each sends
\* exactly one reply, to the sender only, the stats carrying the current counts.
C34_Original ==
    [][(hubEvent'.kind \in {"ping", "get_stats"} /\ hubEvent' # hubEvent) =>
          QueryContained /\ Len(hubEvent'.sent) = 1]_vars

\* C34 amended: ping and get_stats change nothing at the Hub and are answered to
\* the sender only, with one pong, respectively one stats carrying the current
\* counts, when the sender's socket is open at the Hub and with nothing when the
\* Hub is already closing it.
C34_ReadOnlyQueries ==
    [][(hubEvent'.kind \in {"ping", "get_stats"} /\ hubEvent' # hubEvent) =>
          /\ QueryContained
          /\ Len(hubEvent'.sent) = IF hubSock[hubEvent'.conn] = "OPEN" THEN 1 ELSE 0]_vars

\* C34 witness: statistics were sent to one of two open sockets while two
\* responses of one question were stored and a user was active
C34_Witness ==
    /\ hubEvent.kind = "get_stats"
    /\ Len(hubEvent.sent) = 1
    /\ hubEvent.sent[1].msg.totalResponses = 2
    /\ hubEvent.sent[1].msg.connectedClients = 2
    /\ hubEvent.sent[1].msg.activeUsers = 1
    /\ Cardinality(DOMAIN responses) = 1

\* ------------------------------------------------------- shutdown

\* C31: the SIGINT handler sends server_shutdown once to every socket that is
\* open when it runs and to no other, and leaves no socket open; once it has run,
\* neither the heartbeat sweep nor the retention sweep runs again.
C31_Shutdown ==
    [][/\ (hubRunning /\ ~hubRunning') =>
            /\ hubEvent'.kind = "SIGINT"
            /\ \A c \in Conns :
                 /\ SentTo(hubEvent'.sent, c, "server_shutdown") =
                       IF hubSock[c] = "OPEN" THEN 1 ELSE 0
                 /\ hubSock'[c] # "OPEN"
            /\ Len(hubEvent'.sent) = Cardinality({c \in Conns : hubSock[c] = "OPEN"})
       /\ ~hubRunning =>
            /\ ~hubRunning'
            /\ hubEvent' # hubEvent => hubEvent'.kind \notin {"heartbeat", "cleanup"}]_vars

\* C31 witness: the signal found two sockets open, one of them left unanswered by
\* a sweep, and a third already terminated; the two were notified and are closing
C31_Witness ==
    /\ ~hubRunning
    /\ hubEvent.kind = "SIGINT"
    /\ Len(hubEvent.sent) = 2
    /\ \A i \in 1..2 : hubSock[hubEvent.sent[i].to] = "CLOSING"
    /\ \E c \in DOMAIN connectedClients : hubSock[c] = "CLOSING" /\ ~connectedClients[c].isAlive
    /\ \E c \in Conns : hubSock[c] = "TERMINATED"

\* ------------------------------------------------------- subscriptions

\* C21: a sign-out sets connectionMode to 'offline' from any mode, and no
\* callback registered by subscribeToQuestion before a sign-out, in whatever
\* mode, is invoked after it.
C21_SignOutTearsDown ==
    [][/\ (initialized > 0 /\ SignOut) => connectionMode' = "offline"
       /\ \A i \in 1..MaxSubs : ~listeners'[i].late]_vars

\* ------------------------------------------------------- connect

\* what onopen is meant to put on the link: identify for the signed-in user,
\* then request_sync
Hello(user) ==
    (IF user # NULL
     THEN <<[type |-> "identify", userId |-> user,
             displayName |-> IF DisplayNameOf(user) # NULL THEN DisplayNameOf(user)
                             ELSE "Anonymous"]>>
     ELSE <<>>) \o <<[type |-> "request_sync"]>>

\* C24: when a socket of a connect signals ready while the Hub's end is open, the
\* client sends on that socket identify (for the signed-in user) and then
\* request_sync, in that order, and the promise of that connect, still pending,
\* is resolved in the same step, so a resolved connect has sent its request_sync.
C24_ReadySends ==
    [][\A s \in Socks :
          (/\ clientSock[s].rs = "CONNECTING" /\ clientSock'[s].rs = "OPEN"
           /\ hubSock[s] = "OPEN" /\ clientSock[s].promise = "pending")
          => /\ toHub'[s] = toHub[s] \o Hello(currentUser)
             /\ clientSock'[s].promise = "resolved"]_vars

\* C25: the promise of a connect settles exactly once: once resolved or rejected
\* it keeps that outcome for as long as the socket exists; a socket that signals
\* ready while the promise is pending resolves it, the timeout and a transport
\* error reject a pending promise; and once the socket has signalled ready or
\* errored its timer is cancelled and the promise is no longer pending.  (A
\* socket CLOSED with `closed` set had its close event with no error before.)
C25_SettlesOnce ==
    [][\A s \in Socks :
          LET old == clientSock[s]
              new == clientSock'[s]
          IN /\ (old.rs # "NONE" /\ old.promise \in {"resolved", "rejected"}) =>
                  new.promise \in {old.promise, "none"}
             /\ (old.promise = "pending" /\ old.rs = "CONNECTING" /\ new.rs = "OPEN") =>
                  new.promise = "resolved"
             /\ (old.promise = "pending" /\ old.timer /\ ~new.timer
                    /\ new.rs \in {"CONNECTING", "NONE"}) => new.promise = "rejected"
             /\ (old.promise = "pending" /\ new.rs = "CLOSED" /\ ~new.closed) =>
                  new.promise = "rejected"
             /\ (new.rs = "OPEN" \/ (new.rs = "CLOSED" /\ ~new.closed)) =>
                  ~new.timer /\ new.promise # "pending"]_vars

\* C36: the client never has more than one socket that is connecting or open, and
\* when it has one, wsConnection is that socket.
C36_OneSocket ==
    /\ Cardinality(LiveSockets) <= 1
    /\ \A s \in LiveSockets : wsConnection = s

\* the submit_response messages socket s has queued for the Hub
Submitted(queues, s) == {i \in 1..Len(queues[s]) : queues[s][i].type = "submit_response"}

\* C39: saveResponse called while no user is signed in returns false and changes
\* nothing, in every mode: the step that refuses leaves ownResponses, peerData,
\* the link, the remote writes and every other part of the controller as they
\* were; and while nobody is signed in no step records a save, writes
\* ownResponses, queues a submit_response or issues a remote write.
C39_RefusedSave ==
    [][/\ (dataHist'.event.kind = "refused" /\ dataHist'.event # dataHist.event) =>
            /\ currentUser = NULL
            /\ dataHist'.event.saved = "false"
            /\ dataHist'.event.mode = connectionMode
            /\ dataHist' = [dataHist EXCEPT !.event = dataHist'.event]
            /\ UNCHANGED <<hubVars, linkVars, connVars, authVars, cacheVars,
                           cloudOps, cloudStore, userStore, peerQueries, subVars>>
       /\ currentUser = NULL =>
            /\ dataHist'.event.kind = "save" => dataHist'.event = dataHist.event
            /\ ownResponses' = ownResponses
            /\ \A s \in Socks :
                  Cardinality(Submitted(toHub', s)) <= Cardinality(Submitted(toHub, s))
            /\ Len(cloudOps') <= Len(cloudOps)]_vars

\* C39 witness: nobody has ever signed in, the link to the Hub is open and the
\* controller is in 'local'; saveResponse has just refused there, the caches
\* are empty and nothing but the handshake went to the Hub
C39_Witness ==
    /\ currentUser = NULL
    /\ dataHist.event.kind = "refused"
    /\ dataHist.event.mode = "local"
    /\ connectionMode = "local"
    /\ wsConnection # NoConn
    /\ clientSock[wsConnection].rs = "OPEN"
    /\ hubSock[wsConnection] = "OPEN"
    /\ ownResponses = EmptyMap
    /\ cloudOps = <<>>

\* C38: the retention sweep never deletes a response the Hub received less than
\* the retention window ago, whatever timestamp the client supplied: a sweep that
\* runs right after a submit_response was handled (less than the window later on
\* the Hub's clock) leaves the response just stored in sessionData.responses.
C38_ReceiveTimeRetention ==
    [][(/\ hubEvent.kind = "submit_response"
        /\ hubEvent'.kind = "cleanup"
        /\ hubEvent'.now - hubEvent.now < SESSION_TIMEOUT) =>
          <<hubEvent.msg.questionId, hubEvent.msg.userId>> \in Keys(responses')]_vars

\* C37: whenever connectionMode is set to 'cloud', by initialize, by the 'online'
\* listener or by handleAuthStateChange, a user is signed in at that moment.
C37_CloudNeedsUser ==
    [][(connectionMode' = "cloud" /\ (connectionMode # "cloud" \/ initialized = 0)) =>
          currentUser # NULL]_vars

\* ------------------------------------------------------- last write wins

\* C26: the Hub holds, for a key, the response applied last whatever its
\* timestamp; and when a reconcile pass has settled with every write gone
\* through, the remote store holds for every key of the signed-in user the answer
\* and reason of the response with the greatest timestamp submitted for that key.
C26_LastWriteWins ==
    [][/\ (hubEvent' # hubEvent /\ hubEvent'.kind = "submit_response") =>
            LET m == hubEvent'.msg
            IN responses'[m.questionId][m.userId] = StoredResponse(m, hubNow)
       /\ LET e == dataHist'.event
          IN (/\ e.kind = "report" /\ Len(cloudOps') < Len(cloudOps)
              /\ e.issued > 0 /\ e.falses = 0 /\ currentUser # NULL) =>
             \A k \in DOMAIN dataHist.best :
                k[2] = currentUser =>
                   /\ k \in DOMAIN cloudStore'
                   /\ cloudStore'[k].answer = dataHist.best[k].answer
                   /\ cloudStore'[k].reason = dataHist.best[k].reason]_vars

\* ------------------------------------------------------- inbound fold

\* the keys and entries message m carries for the cache
Carried(m) ==
    CASE m.type = "peer_response" -> {m}
      [] m.type \in {"bulk_update", "sync_response"} -> m.responses
      [] OTHER -> {}

\* C27: when the client handles an inbound message, every response it carries (a
\* peer_response itself, each element of a bulk_update or of a sync_response's
\* responses, the two handled alike) becomes the cached peer entry of its
\* (questionId, userId) whatever the timestamp of the entry it replaces, and
\* every other entry stays as it was.
C27_UnconditionalFold ==
    [][\A s \in Socks :
          (/\ toClient[s] # <<>> /\ toClient'[s] = Tail(toClient[s])
           /\ hubEvent' = hubEvent /\ clientSock' = clientSock) =>
          LET rs == Carried(Head(toClient[s]))
              ks == {<<r.questionId, r.userId>> : r \in rs}
          IN /\ Keys(peerData') = Keys(peerData) \cup ks
             /\ \A r \in rs : peerData'[r.questionId][r.userId] = PeerEntry(r)
             /\ \A k \in Keys(peerData) \ ks :
                   peerData'[k[1]][k[2]] = peerData[k[1]][k[2]]]_vars

\* a sync_response with responses was folded and an entry of greater timestamp
\* has been replaced by one of smaller timestamp
C27_Witness ==
    /\ dataHist.lowered
    /\ \E s \in Socks :
          /\ clientSock[s].rs = "OPEN"
          /\ toClient[s] = <<>>
          /\ hubEvent.kind = "request_sync" /\ hubEvent.conn = s
          /\ \E i \in 1..Len(hubEvent.sent) :
                /\ hubEvent.sent[i].msg.type = "sync_response"
                /\ hubEvent.sent[i].msg.responses # {}
                /\ \A r \in hubEvent.sent[i].msg.responses :
                      peerData[r.questionId][r.userId] = PeerEntry(r)

\* ------------------------------------------------------- cache lifetime

\* C28: no step of the controller (mode transition, sign-out, link close,
\* reconnect, reconcile, inbound message) removes a (questionId, userId) key from
\* localCache.responses or from localCache.peerData.
C28_NeverPruned ==
    [][/\ Keys(ownResponses) \subseteq Keys(ownResponses')
       /\ Keys(peerData) \subseteq Keys(peerData')]_vars

\* both caches are filled, the own response was replayed to the remote store, and
\* since then the link has closed and the user has signed out
C28_Witness ==
    /\ Keys(ownResponses) # {} /\ Keys(peerData) # {}
    /\ Keys(ownResponses) \subseteq DOMAIN cloudStore
    /\ currentUser = NULL /\ connectionMode = "offline"
    /\ wsConnection = NoConn /\ \A s \in Socks : clientSock[s].rs = "NONE"

\* C29: localCache.peerData never holds an entry under the userId of the
\* signed-in user, whatever the Hub has sent on connect or in answer to
\* request_sync.
C29_OthersOnly ==
    currentUser # NULL => \A q \in DOMAIN peerData : currentUser \notin DOMAIN peerData[q]

\* ------------------------------------------------------- submit transport

\* C22: a saveResponse call of a signed-in user, the response cached, does what
\* the mode at that moment asks for and nothing else: in 'cloud' one
\* saveQuizResponse call for the response and nothing on the link, the call
\* returning true exactly when the write went through; in 'local' no remote
\* write, and one submit_response carrying the response on this.wsConnection
\* with true returned when that socket is open, nothing sent and false returned
\* when it is not; in 'offline' neither a remote write nor a message.
C22_Transport ==
    [][LET e == dataHist'.event
       IN /\ (e.kind = "save" /\ dataHist' # dataHist) =>
               LET r == e.response
                   linkOpen == wsConnection # NoConn /\ clientSock[wsConnection].rs = "OPEN"
               IN /\ e.mode = connectionMode
                  /\ Cached(ownResponses', r)
                  /\ e.mode = "cloud" =>
                        /\ toHub' = toHub
                        /\ Len(cloudOps') = Len(cloudOps) + 1
                        /\ SubSeq(cloudOps', 1, Len(cloudOps)) = cloudOps
                        /\ LET op == cloudOps'[Len(cloudOps')]
                           IN /\ op.questionId = r.questionId /\ op.userId = r.userId
                              /\ op.answer = r.answer /\ op.reason = r.reason
                        /\ e.saved = "pending"
                  /\ (e.mode = "local" /\ linkOpen) =>
                        /\ cloudOps' = cloudOps
                        /\ \A s \in Socks \ {wsConnection} : toHub'[s] = toHub[s]
                        /\ Len(toHub'[wsConnection]) = Len(toHub[wsConnection]) + 1
                        /\ SubSeq(toHub'[wsConnection], 1, Len(toHub[wsConnection]))
                              = toHub[wsConnection]
                        /\ LET m == toHub'[wsConnection][Len(toHub'[wsConnection])]
                           IN /\ m.type = "submit_response"
                              /\ m.questionId = r.questionId /\ m.userId = r.userId
                              /\ m.answer = r.answer /\ m.reason = r.reason
                              /\ m.timestamp = r.timestamp
                        /\ e.saved = "true"
                  /\ (e.mode = "local" /\ ~linkOpen) =>
                        cloudOps' = cloudOps /\ toHub' = toHub /\ e.saved = "false"
                  /\ e.mode = "offline" =>
                        cloudOps' = cloudOps /\ toHub' = toHub /\ e.saved = "true"
          /\ (e.kind = "return" /\ dataHist' # dataHist) =>
               /\ toHub' = toHub
               /\ \E i \in 1..Len(cloudOps) :
                     /\ cloudOps' = RemoveAt(cloudOps, i)
                     /\ e.key = <<cloudOps[i].questionId, cloudOps[i].userId>>
                     /\ e.saved = "true" =>
                           /\ e.key \in DOMAIN cloudStore'
                           /\ cloudStore'[e.key].answer = cloudOps[i].answer
                     /\ e.saved = "false" => cloudStore' = cloudStore]_vars

\* C22 witness: a call made in 'local' after the link had closed returned false,
\* the response cached, while an earlier submission had reached the Hub
C22_Witness ==
    /\ dataHist.event.kind = "save"
    /\ dataHist.event.mode = "local"
    /\ dataHist.event.saved = "false"
    /\ Cached(ownResponses, dataHist.event.response)
    /\ Keys(responses) # {}

\* ------------------------------------------------------- reading peers

\* C23: getPeerResponses(questionId) called in 'cloud' queries the remote store,
\* reads nothing of the cache and, the query answered, returns what the query
\* gave (the documents of the question, or nothing when the query failed),
\* whatever the cache holds and whatever the mode is by then; in 'local' and
\* 'offline' it queries nothing and returns one entry per userId cached for the
\* question, with that userId and the cached answer, reason, displayName and
\* timestamp, and no entry when the question is not cached.
C23_PeerResponses ==
    [][LET e == dataHist'.event
           q == e.questionId
       IN /\ peerQueries' # peerQueries =>
               /\ e.kind \in {"query", "peers"}
               /\ e.mode = "cloud" /\ e.remote
               /\ UNCHANGED <<cacheVars, cloudStore, connectionMode>>
          /\ (e.kind = "query" /\ peerQueries' # peerQueries) =>
               /\ connectionMode = "cloud"
               /\ peerQueries' = Append(peerQueries, q)
          /\ (e.kind = "peers" /\ dataHist' # dataHist) =>
               IF e.mode = "cloud"
               THEN /\ e.remote
                    /\ \E i \in 1..Len(peerQueries) :
                          /\ peerQueries[i] = q
                          /\ peerQueries' = RemoveAt(peerQueries, i)
                    /\ \/ e.responses = {}
                       \/ e.responses = {cloudStore[k] :
                                            k \in {x \in DOMAIN cloudStore : x[1] = q}}
               ELSE /\ e.mode = connectionMode
                    /\ ~e.remote
                    /\ UNCHANGED peerQueries
                    /\ q \notin DOMAIN peerData => e.responses = {}
                    /\ q \in DOMAIN peerData =>
                          /\ Cardinality(e.responses) = Cardinality(DOMAIN peerData[q])
                          /\ \A u \in DOMAIN peerData[q] :
                                \E x \in e.responses :
                                   /\ x.userId = u
                                   /\ x.answer = peerData[q][u].answer
                                   /\ x.reason = peerData[q][u].reason
                                   /\ x.displayName = peerData[q][u].displayName
                                   /\ x.timestamp = peerData[q][u].timestamp]_vars

\* C23 witness: a call in 'cloud' returned the documents of the remote store
\* while the cache held another participant's response for the same question
C23_Witness ==
    /\ dataHist.event.kind = "peers"
    /\ dataHist.event.mode = "cloud"
    /\ dataHist.event.responses # {}
    /\ dataHist.event.questionId \in DOMAIN peerData
    /\ \A x \in dataHist.event.responses :
          x.userId \notin DOMAIN peerData[dataHist.event.questionId]


\* ------------------------------------------------- unsent submissions

\* the link of the controller is open
LinkOpen == wsConnection # NoConn /\ clientSock[wsConnection].rs = "OPEN"

\* what a step appended to the queue of socket s (nothing when it took from it)
Appended(s) ==
    IF Len(toHub'[s]) > Len(toHub[s]) /\ SubSeq(toHub'[s], 1, Len(toHub[s])) = toHub[s]
    THEN SubSeq(toHub'[s], Len(toHub[s]) + 1, Len(toHub'[s]))
    ELSE <<>>

\* C40: a response submitted in 'local' while the link is not open is written to
\* ownResponses only, nothing is sent and no remote write issued; a
\* submit_response is only ever sent by a saveResponse call made in 'local' with
\* the link open, and carries the response that call built; the handshake of a
\* socket that opens sends identify and request_sync only; and a remote write is
\* issued for a cached response only by saveResponse in 'cloud' or by the
\* reconcile pass of a step that puts the controller in 'cloud'.
C40_NoReplayOnReconnect ==
    [][/\ (connectionMode = "local" /\ ~LinkOpen /\ ownResponses' # ownResponses) =>
            /\ dataHist'.event.kind = "save"
            /\ dataHist'.event.mode = "local"
            /\ dataHist'.event.saved = "false"
            /\ ownResponses' = CacheWrite(ownResponses, dataHist'.event.response)
            /\ UNCHANGED <<toHub, cloudOps, cloudStore, peerData, connectionMode>>
       /\ \A s \in Socks :
            /\ Submitted(toHub', s) # {} =>
                 Cardinality(Submitted(toHub', s)) <= Cardinality(Submitted(toHub, s)) + 1
            /\ Cardinality(Submitted(toHub', s)) > Cardinality(Submitted(toHub, s)) =>
                 /\ connectionMode = "local"
                 /\ LinkOpen
                 /\ wsConnection = s
                 /\ dataHist'.event.kind = "save"
                 /\ dataHist'.event.saved = "true"
                 /\ dataHist'.event.response.timestamp = clientNow
                 /\ Appended(s) = <<SubmitMessage(dataHist'.event.response)>>
                 /\ ownResponses' = CacheWrite(ownResponses, dataHist'.event.response)
            /\ (clientSock[s].rs = "CONNECTING" /\ clientSock'[s].rs = "OPEN") =>
                 \A t \in Socks :
                    /\ Len(toHub'[t]) >= Len(toHub[t])
                    /\ \A i \in 1..Len(Appended(t)) :
                          Appended(t)[i].type \in {"identify", "request_sync"}
       /\ Len(cloudOps') > Len(cloudOps) =>
            \/ /\ connectionMode = "cloud"
               /\ dataHist'.event.kind = "save"
               /\ dataHist'.event.saved = "pending"
            \/ /\ connectionMode' = "cloud"
               /\ dataHist'.event.kind = "sync"
               /\ \A i \in (Len(cloudOps) + 1)..Len(cloudOps') : cloudOps'[i].pass >= 1]_vars

\* C40 witness: the response was submitted in 'local' after the link had closed
\* and is cached; the link has since been opened again, the handshake of the new
\* socket is all that is on its way to the Hub, and the Hub stores no response
C40_Witness ==
    /\ dataHist.event.kind = "save"
    /\ dataHist.event.mode = "local"
    /\ dataHist.event.saved = "false"
    /\ Cached(ownResponses, dataHist.event.response)
    /\ connectionMode = "local"
    /\ LinkOpen
    /\ hubSock[wsConnection] = "OPEN"
    /\ toHub[wsConnection] =
          <<[type |-> "identify", userId |-> currentUser,
             displayName |-> DisplayNameOf(currentUser)],
            [type |-> "request_sync"]>>
    /\ responses = EmptyMap

============================================================================
